---- MODULE Spec2Model ----
(***************************************************************************)
(* Model of the UML drawing functions of score_draw_uml_funcs              *)
(* (src/src/extensions/score_draw_uml_funcs/__init__.py): the feature      *)
(* relationship closure of draw_full_feature, draw_module, and the         *)
(* recursive component drawing draw_comp_incl_impl_int.                    *)
(*                                                                         *)
(* A need id is a tuple of the segments of the id string, so that the      *)
(* prefix test str.startswith is computed on the id and not assumed:       *)
(* "comp__baselibs_x" is <<"comp", "baselibs", "x">>.                      *)
(*                                                                         *)
(* A text is a sequence of its newline-terminated lines.  A structure line *)
(* is <<kind, id>>; a linkage line is <<src, arrow, dst, label>>.          *)
(***************************************************************************)
EXTENDS Integers, Sequences, FiniteSets, TLC

\* ------------------------------------------------------------------ ids
F == <<"feat", "f">>
M1 == <<"mod", "m1">>
M2 == <<"mod", "m2">>
C1 == <<"comp", "c1">>
C2 == <<"comp", "c2">>
C3 == <<"comp", "c3">>
CX == <<"comp", "baselibs", "x">>
I1 == <<"logic_arc_int", "i1">>
I2 == <<"logic_arc_int", "i2">>
I3 == <<"logic_arc_int", "i3">>
IO1 == <<"logic_arc_int_op", "o1">>
Feature_User == <<"Feature_User">>

\* The insertion order of the all_needs dictionary.
AllIds == <<F, M1, M2, C1, C2, C3, CX, I1, I2, I3, IO1>>

\* The deepest chain of nested Python calls before RecursionError is raised.
RecursionLimit == 4

\* ------------------------------------------------------------- utilities
Range(s) == {s[i] : i \in 1..Len(s)}

NoDup(s) == \A i, j \in 1..Len(s) : i # j => s[i] # s[j]

\* All orders in which the elements of a set can be iterated.
Orders(S) == {s \in [1..Cardinality(S) -> S] : Range(s) = S}

\* dict.get(k, [])
Get(d, k) == IF k \in DOMAIN d THEN d[k] ELSE <<>>

\* d[k] = v
Put(d, k, v) == [x \in (DOMAIN d) \cup {k} |-> IF x = k THEN v ELSE d[x]]

\* [x for x in s if P(x)], order kept
Filter(s, S) == SelectSeq(s, LAMBDA x : x \in S)

\* str.startswith on segmented ids
StartsWith(id, prefix) ==
    /\ Len(id) >= Len(prefix)
    /\ SubSeq(id, 1, Len(prefix)) = prefix

\* ----------------------------------------------------------------- texts
\* split("\n") leaves one empty piece after the last newline.
EmptyLine == <<>>

\* The order in which Python iterates a set of strings is not specified, so
\* a text built by joining a set is kept as that set followed by the lines
\* appended to it since.
EmptyText == [unordered |-> {}, ordered |-> <<>>]

LinesOf(t) == t.unordered \cup Range(t.ordered)

\* text += lines
AppendLines(t, ls) == [t EXCEPT !.ordered = @ \o ls]

\* set(text.split("\n"))
SplitLines(t) == LinesOf(t) \cup {EmptyLine}

\* "\n".join(set(text.split("\n"))) + "\n"
RemoveDuplicateLinks(t) == [unordered |-> SplitLines(t), ordered |-> <<>>]

\* ----------------------------------------------------------------- graph
Ids == Range(AllIds)
Modules == {M1, M2}
Components == {C1, C2, C3, CX}
Interfaces == {I1, I2, I3}

TypeOf(id) == id[1]

NoRel == [id \in Ids |-> <<>>]

\* The need graphs of the feature requests.
FeatureGraphs ==
    {[ids |-> Ids,
      includes |-> [NoRel EXCEPT ![F] = fi, ![M1] = m1, ![M2] = m2],
      consists_of |-> [NoRel EXCEPT ![F] = fc, ![C1] = cc[1], ![C3] = cc[2]],
      implements |-> [NoRel EXCEPT ![C1] = <<I1>>, ![C2] = c2i,
                                   ![C3] = c3[1], ![CX] = cx[1]],
      uses |-> [NoRel EXCEPT ![C1] = c1u, ![C2] = c2u,
                             ![C3] = c3[2], ![CX] = cx[2]],
      owner |-> [NoRel EXCEPT ![IO1] = I1]] :
        fi \in {<<I1>>, <<IO1, I1, I2>>},
        fc \in {<<C1>>, <<C1, CX>>},
        m1 \in {<<>>, <<C1>>, <<C1, C2>>},
        m2 \in {<<>>, <<C2>>, <<C2, C3>>},
        cc \in {<< <<>>, <<>> >>, << <<C3>>, <<>> >>, << <<C3>>, <<C1>> >>},
        c1u \in {<<>>, <<I2>>},
        c2i \in {<<>>, <<I2>>, <<I1>>, <<I1, I2>>},
        c2u \in {<<>>, <<I3>>},
        c3 \in {<< <<>>, <<>> >>, << <<I3>>, <<I2>> >>},
        cx \in {<< <<>>, <<>> >>, << <<I2>>, <<I3>> >>}}

\* The need graphs of the component requests.
ComponentGraphs ==
    {[ids |-> Ids,
      includes |-> [NoRel EXCEPT ![C1] = c1n, ![C2] = c2n],
      consists_of |-> [NoRel EXCEPT ![C1] = c1c, ![C2] = c2c, ![C3] = c3c],
      implements |-> [NoRel EXCEPT ![C1] = <<I1>>, ![C2] = c2i, ![C3] = c3i],
      uses |-> [NoRel EXCEPT ![C2] = c2u, ![C3] = c3u],
      owner |-> [NoRel EXCEPT ![IO1] = I1]] :
        c1n \in {<<>>, <<C3>>},
        c2n \in {<<>>, <<C3, I1>>},
        c1c \in {<<>>, <<C2>>, <<C2, C3>>},
        c2c \in {<<>>, <<C3>>, <<C1>>},
        c3c \in {<<>>, <<C3>>},
        c2i \in {<<>>, <<I1>>},
        c3i \in {<<>>, <<I2>>},
        c2u \in {<<>>, <<I3>>},
        c3u \in {<<>>, <<I1>>}}

\* ------------------------------------------------ relation extractor
\* get_interface_from_int: an interface operation resolves to the interface
\* that owns it, any other id to itself.
GetInterfaceFromInt(gr, id) ==
    IF id \in gr.ids /\ TypeOf(id) = "logic_arc_int_op" THEN gr.owner[id] ELSE id

\* get_interface_from_component: the interfaces of need[relation], in order,
\* without the ids absent from the graph and without repetition.
RECURSIVE ResolveInterfaces(_, _, _)
ResolveInterfaces(gr, s, acc) ==
    IF s = <<>> THEN acc
    ELSE LET i == GetInterfaceFromInt(gr, Head(s))
         IN ResolveInterfaces(gr, Tail(s),
                IF Head(s) \notin gr.ids \/ i \in Range(acc) THEN acc
                ELSE Append(acc, i))

GetInterfaceFromComponent(gr, id, relation) ==
    ResolveInterfaces(gr, IF relation = "implements" THEN gr.implements[id]
                          ELSE gr.uses[id], <<>>)

\* get_impl_comp_from_logic_iface: the needs that implement the interface.
GetImplCompFromLogicIface(gr, iface) ==
    Filter(AllIds, {c \in gr.ids : iface \in Range(gr.implements[c])})

\* get_module: the first module that includes the component, or None.
None == <<>>

GetModule(gr, comp) ==
    LET ms == Filter(AllIds, {m \in gr.ids : TypeOf(m) = "mod"
                                  /\ comp \in Range(gr.includes[m])})
    IN IF ms = <<>> THEN None ELSE Head(ms)

\* gen_struct_element, gen_interface_element, gen_link_text: one line each.
OpenBlock(kind, id) == <<kind, id>>
CloseBlock(id) == <<"close", id>>
GenInterfaceElement(iface) == <<"interface", iface>>
GenLinkText(src, arrow, dst, label) == <<src, arrow, dst, label>>

\* get_hierarchy_text: (rest open, rest close, module open, module close)
GetHierarchyText(gr, comp) ==
    LET m == GetModule(gr, comp)
    IN << <<OpenBlock("component", comp)>>, <<CloseBlock(comp)>>,
          IF m = None THEN <<>> ELSE <<OpenBlock("package", m)>>,
          IF m = None THEN <<>> ELSE <<CloseBlock(m)>> >>

\* comp_id.startswith('comp__baselibs_') or comp_id.startswith('comp__os_')
IsExternalBaselib(id) ==
    \/ StartsWith(id, <<"comp", "baselibs">>)
    \/ StartsWith(id, <<"comp", "os">>)

\* ----------------------------------------------------------------- state
VARIABLES
    pc,                             \* where the request is
    request,                        \* "feature" or "component"
    root,                           \* the need the diagram is asked for
    all_needs,                      \* the need graph
    interfacelist,                  \* __call__: the feature's interfaces
    primary_components,
    primary_interfaces,
    all_related_interfaces,
    primary_interface_implementers,
    secondary_interfaces,
    secondary_components,
    visited_interfaces,
    interfaces_to_process,          \* the work queue
    all_related_components,
    modules_to_draw,
    modules_left,                   \* modules_to_draw not yet iterated
    components_in_modules_only,
    proc_modules,
    impl_comp,
    proc_impl_interfaces,           \* registry: interface -> credited needs
    proc_used_interfaces,           \* registry: <<interface, consumers>>, in
                                    \* insertion order
    structure_text,
    link_text,
    module,                         \* draw_module: its need, and its locals
    local_impl_interfaces,
    module_structure,
    module_linkage,
    include_index,
    stack,                          \* the calls of draw_comp_incl_impl_int
    diagram,                        \* the ClassDiagram
    log,                            \* the calls on it that returned
    raised,                         \* whether the last call raised
    calls,                          \* the number of calls made
    call,                           \* the last call made
    output,                         \* what render returned, once called
    alias_map,                      \* an _AliasMap
    returned,                       \* the aliases it returned, with the names
    scenario                        \* which calls the request makes

closure_vars ==
    <<interfacelist, primary_components, primary_interfaces,
      all_related_interfaces, primary_interface_implementers,
      secondary_interfaces, secondary_components, visited_interfaces,
      interfaces_to_process>>

collect_vars ==
    <<all_related_components, modules_to_draw, modules_left,
      components_in_modules_only, proc_modules, impl_comp>>

module_vars ==
    <<module, local_impl_interfaces, module_structure, module_linkage,
      include_index>>

registry_vars == <<proc_impl_interfaces, proc_used_interfaces>>

diagram_vars ==
    <<diagram, log, raised, calls, call, output, alias_map, returned,
      scenario>>

vars ==
    <<pc, request, root, all_needs, closure_vars, collect_vars, module_vars,
      registry_vars, structure_text, link_text, stack, diagram_vars>>

\* The state every request starts from: nothing collected, nothing drawn.
Fresh ==
    /\ pc = "start"
    /\ interfacelist = <<>>
    /\ primary_components = {}
    /\ primary_interfaces = {}
    /\ all_related_interfaces = {}
    /\ primary_interface_implementers = {}
    /\ secondary_interfaces = {}
    /\ secondary_components = {}
    /\ visited_interfaces = {}
    /\ interfaces_to_process = <<>>
    /\ all_related_components = {}
    /\ modules_to_draw = {}
    /\ modules_left = {}
    /\ components_in_modules_only = {}
    /\ proc_modules = <<>>
    /\ impl_comp = <<>>
    /\ proc_impl_interfaces = <<>>
    /\ proc_used_interfaces = <<>>
    /\ structure_text = <<>>
    /\ link_text = EmptyText
    /\ module = None
    /\ local_impl_interfaces = {}
    /\ module_structure = <<>>
    /\ module_linkage = <<>>
    /\ include_index = 0
    /\ stack = <<>>

\* ClassDiagram(): classes holds the nodes in the insertion order of the
\* dict, relations the list.
EmptyDiagram == [classes |-> <<>>, relations |-> <<>>]

\* _AliasMap()
EmptyAliasMap == [map |-> <<>>, used |-> {}]

\* A call on the diagram or on the alias map, by its arguments: x and y are
\* the names, k the kind or the visibility, o the optional string.
Call(op, x, y, k, o) == [op |-> op, x |-> x, y |-> y, k |-> k, o |-> o]

\* A diagram nothing was called on, and the alias map of a renderer.
FreshDiagram ==
    /\ diagram = EmptyDiagram
    /\ log = <<>>
    /\ raised = FALSE
    /\ calls = 0
    /\ call = Call("none", <<>>, <<>>, "none", None)
    /\ output = <<>>
    /\ alias_map = EmptyAliasMap
    /\ returned = <<>>

\* A drawing request has no class diagram.
NoDiagram ==
    /\ FreshDiagram
    /\ scenario = "drawing"

Init ==
    /\ \/ request = "feature" /\ root = F /\ all_needs \in FeatureGraphs
       \/ request = "component" /\ root = C1 /\ all_needs \in ComponentGraphs
    /\ Fresh
    /\ NoDiagram

\* ------------------------------------------------------- feature closure
\* __call__: the interfaces of the feature's includes, each once.
RECURSIVE IncludedInterfaces(_, _, _)
IncludedInterfaces(gr, s, acc) ==
    IF s = <<>> THEN acc
    ELSE LET iface == GetInterfaceFromInt(gr, Head(s))
         IN IncludedInterfaces(gr, Tail(s),
                IF iface \in Range(acc) THEN acc ELSE Append(acc, iface))

\* The components that implement a primary interface, are not primary and
\* are not external.
PrimaryInterfaceImplementers(gr, prim_ifaces, prim_comps) ==
    {c \in Ids : /\ \E iface \in prim_ifaces \cap gr.ids :
                        c \in Range(GetImplCompFromLogicIface(gr, iface))
                 /\ c \notin prim_comps
                 /\ ~IsExternalBaselib(c)}

\* Mutant: the interfaces used by the primary-interface implementers are
\* collected too.
SecondaryInterfacesWithImplementers(gr, prim_comps) ==
    UNION {Range(GetInterfaceFromComponent(gr, c, "uses")) :
               c \in (prim_comps \cup PrimaryInterfaceImplementers(gr,
                          Range(IncludedInterfaces(gr, gr.includes[F], <<>>)),
                          prim_comps)) \cap gr.ids}

\* The interfaces used by the primary components.
SecondaryInterfaces(gr, prim_comps) ==
    UNION {Range(GetInterfaceFromComponent(gr, c, "uses")) :
               c \in prim_comps \cap gr.ids}

\* __call__ up to the fixed-point loop of _collect_interfaces_and_modules.
FeatureCall ==
    /\ pc = "start"
    /\ request = "feature"
    /\ LET il == IncludedInterfaces(all_needs, all_needs.includes[root], <<>>)
           pcs == Range(all_needs.consists_of[root])
           sec == SecondaryInterfaces(all_needs, pcs)
       IN /\ interfacelist' = il
          /\ structure_text' = <<OpenBlock("actor", Feature_User)>>
          /\ primary_components' = pcs
          /\ primary_interfaces' = Range(il)
          /\ primary_interface_implementers' =
                 PrimaryInterfaceImplementers(all_needs, Range(il), pcs)
          /\ secondary_interfaces' = sec
          /\ all_related_interfaces' = Range(il) \cup sec
          /\ \E order \in Orders(sec) : interfaces_to_process' = order
    /\ secondary_components' = {}
    /\ visited_interfaces' = {}
    /\ pc' = "loop"
    /\ UNCHANGED <<request, root, all_needs, collect_vars, module_vars,
                   registry_vars, link_text, stack>>
    /\ UNCHANGED diagram_vars

\* Mutant: the first interface is read and left in the queue.
PopFirstKeeps(queue) == queue

\* interfaces_to_process.pop(0): what is left of the queue.
PopFirst(queue) == Tail(queue)

\* Mutant: the primary components are not left out.
NewSecondaryComponentsAny(gr, iface, prim_comps) ==
    Filter(GetImplCompFromLogicIface(gr, iface), gr.ids)

\* The secondary components an interface adds: its implementers that are in
\* the graph and not primary.
NewSecondaryComponents(gr, iface, prim_comps) ==
    Filter(GetImplCompFromLogicIface(gr, iface), gr.ids \ prim_comps)

\* Mutant: the chain is followed through external components too.
FollowsChainAlways(comp) == TRUE

\* Whether the chain is followed through a secondary component.
FollowsChain(comp) == ~IsExternalBaselib(comp)

\* The interfaces one secondary component appends to the queue.
UsedToAppend(gr, comp, visited, prim_ifaces) ==
    IF FollowsChain(comp)
    THEN Filter(GetInterfaceFromComponent(gr, comp, "uses"),
                Ids \ (visited \cup prim_ifaces))
    ELSE <<>>

RECURSIVE AppendedBy(_, _, _, _)
AppendedBy(gr, comps, visited, prim_ifaces) ==
    IF comps = <<>> THEN <<>>
    ELSE UsedToAppend(gr, Head(comps), visited, prim_ifaces)
             \o AppendedBy(gr, Tail(comps), visited, prim_ifaces)

\* Mutant: an expanded interface is not recorded as visited.
MarkVisitedNot(visited, iface) == visited

\* What one expansion adds to visited_interfaces.
MarkVisited(visited, iface) == visited \cup {iface}

\* One iteration of "while interfaces_to_process".
LoopStep ==
    /\ pc = "loop"
    /\ interfaces_to_process # <<>>
    /\ LET iface == Head(interfaces_to_process)
           rest == PopFirst(interfaces_to_process)
       IN IF iface \in visited_interfaces \/ iface \notin all_needs.ids
          THEN /\ interfaces_to_process' = rest
               /\ UNCHANGED <<visited_interfaces, secondary_components,
                              all_related_interfaces>>
          ELSE LET visited == MarkVisited(visited_interfaces, iface)
                   comps == NewSecondaryComponents(all_needs, iface,
                                                   primary_components)
                   more == AppendedBy(all_needs, comps, visited,
                                      primary_interfaces)
               IN /\ visited_interfaces' = visited
                  /\ secondary_components' =
                         secondary_components \cup Range(comps)
                  /\ interfaces_to_process' = rest \o more
                  /\ all_related_interfaces' =
                         all_related_interfaces \cup Range(more)
    /\ UNCHANGED <<pc, request, root, all_needs, interfacelist,
                   primary_components, primary_interfaces,
                   primary_interface_implementers, secondary_interfaces,
                   collect_vars, module_vars, registry_vars, structure_text,
                   link_text, stack>>
    /\ UNCHANGED diagram_vars

\* The modules of the components to display, external components left out.
ModulesToDraw(gr, comps) ==
    {GetModule(gr, c) : c \in {x \in comps : ~IsExternalBaselib(x)}}
        \ {None}

\* The non-primary components the modules to draw include.
ComponentsInModulesOnly(gr, mods, prim_comps) ==
    UNION {Range(gr.includes[m]) : m \in mods \cap gr.ids} \ prim_comps

\* After the loop: the components to display and the modules to draw.
CollectModules ==
    /\ pc = "loop"
    /\ interfaces_to_process = <<>>
    /\ LET comps == primary_components \cup secondary_components
                        \cup primary_interface_implementers
           mods == ModulesToDraw(all_needs, comps)
       IN /\ all_related_components' = comps
          /\ modules_to_draw' = mods
          /\ modules_left' = mods
          /\ components_in_modules_only' =
                 ComponentsInModulesOnly(all_needs, mods, primary_components)
    /\ pc' = "modules"
    /\ UNCHANGED <<request, root, all_needs, closure_vars, proc_modules,
                   impl_comp, module_vars, registry_vars, structure_text,
                   link_text, stack>>
    /\ UNCHANGED diagram_vars

\* --------------------------------------------------------- registries
\* proc_used_interfaces is iterated, so it keeps its insertion order.
UsedKeys(used) == {used[i][1] : i \in 1..Len(used)}

UsedAdd(used, iface, comp) ==
    IF iface \in UsedKeys(used)
    THEN [i \in 1..Len(used) |->
              IF used[i][1] = iface THEN <<iface, Append(used[i][2], comp)>>
              ELSE used[i]]
    ELSE Append(used, <<iface, <<comp>> >>)

\* The (interface, consumer) pairs the registry records.
UsedPairs(used) ==
    UNION {{<<used[i][1], used[i][2][j]>> : j \in 1..Len(used[i][2])} :
               i \in 1..Len(used)}

\* _process_interfaces, relation "implements": one link per interface the
\* need is not yet credited for.
RECURSIVE ProcessImplements(_, _, _, _, _)
ProcessImplements(gr, need, ifaces, reg, linkage) ==
    IF ifaces = <<>> THEN [reg |-> reg, linkage |-> linkage]
    ELSE LET iface == Head(ifaces)
             credited == Get(reg, iface)
         IN IF iface \notin gr.ids
            THEN ProcessImplements(gr, need, Tail(ifaces), reg, linkage)
            ELSE IF need \in Range(credited)
            THEN ProcessImplements(gr, need, Tail(ifaces),
                                   Put(reg, iface, credited), linkage)
            ELSE ProcessImplements(gr, need, Tail(ifaces),
                     Put(reg, iface, Append(credited, need)),
                     Append(linkage,
                            GenLinkText(need, "-u->", iface, "implements")))

\* _process_interfaces, relation "uses": the need is recorded as a consumer.
RECURSIVE ProcessUses(_, _, _, _)
ProcessUses(gr, need, ifaces, used) ==
    IF ifaces = <<>> THEN used
    ELSE IF Head(ifaces) \notin gr.ids
    THEN ProcessUses(gr, need, Tail(ifaces), used)
    ELSE ProcessUses(gr, need, Tail(ifaces), UsedAdd(used, Head(ifaces), need))

\* draw_impl_interface: the interfaces implemented by the need and by all it
\* includes or consists of; err when the calls nest deeper than Python
\* allows.
RECURSIVE DrawImplInterface(_, _, _)
DrawImplInterface(gr, need, depth) ==
    IF depth > RecursionLimit THEN [err |-> TRUE, ifaces |-> {}]
    ELSE LET subs == Filter(gr.includes[need] \o gr.consists_of[need], gr.ids)
             rs == [i \in 1..Len(subs) |->
                        DrawImplInterface(gr, subs[i], depth + 1)]
         IN [err |-> \E i \in 1..Len(subs) : rs[i].err,
             ifaces |-> UNION {rs[i].ifaces : i \in 1..Len(subs)} \cup
                        Range(GetInterfaceFromComponent(gr, need,
                                                        "implements"))]

\* What _process_impl_interfaces stores for an interface it draws.
ImplMark(need) == <<need>>

\* _process_impl_interfaces: the block of every implemented interface that
\* has no credited need yet, in the order the set is iterated.
RECURSIVE ProcessImplInterfaces(_, _, _, _, _)
ProcessImplInterfaces(gr, need, order, reg, structure) ==
    IF order = <<>> THEN [reg |-> reg, structure |-> structure]
    ELSE LET iface == Head(order)
         IN IF iface \notin gr.ids \/ Get(reg, iface) # <<>>
            THEN ProcessImplInterfaces(gr, need, Tail(order), reg, structure)
            ELSE ProcessImplInterfaces(gr, need, Tail(order),
                     Put(reg, iface, ImplMark(need)),
                     Append(structure, GenInterfaceElement(iface)))

\* What _process_used_interfaces stores for an interface that no component
\* implements.
NoImplementerMark == <<>>

\* Mutant: the uses edges of an interface are emitted only in the call that
\* draws the block of the interface.
RECURSIVE ProcessUsedInterfacesNewOnly(_, _, _, _, _, _)
ProcessUsedInterfacesNewOnly(gr, used, local_impl, reg, structure, linkage) ==
    IF used = <<>>
    THEN [reg |-> reg, structure |-> structure, linkage |-> linkage]
    ELSE LET iface == Head(used)[1]
             comps == Head(used)[2]
             impl_comp_str == GetImplCompFromLogicIface(gr, iface)
             has_impl == impl_comp_str # <<>> /\ impl_comp_str[1] \in gr.ids
             retval == GetHierarchyText(gr, impl_comp_str[1])
             uses == [i \in 1..Len(comps) |->
                          GenLinkText(comps[i], "-d[#green]->", iface, "uses")]
         IN IF iface \in DOMAIN reg /\ Len(reg[iface]) > 0
            THEN ProcessUsedInterfacesNewOnly(gr, Tail(used), local_impl, reg,
                     structure, linkage)
            ELSE IF has_impl
            THEN ProcessUsedInterfacesNewOnly(gr, Tail(used), local_impl,
                     IF iface \notin local_impl
                     THEN Put(reg, iface, <<impl_comp_str[1]>>) ELSE reg,
                     structure \o retval[3] \o retval[1] \o retval[2]
                         \o retval[4]
                         \o (IF iface \notin local_impl
                             THEN <<GenInterfaceElement(iface)>> ELSE <<>>),
                     Append(linkage,
                            GenLinkText(impl_comp_str[1], "-u->", iface,
                                        "implements")) \o uses)
            ELSE ProcessUsedInterfacesNewOnly(gr, Tail(used), local_impl,
                     Put(reg, iface, NoImplementerMark),
                     Append(structure, GenInterfaceElement(iface)),
                     linkage \o uses)

\* _process_used_interfaces
RECURSIVE ProcessUsedInterfaces(_, _, _, _, _, _)
ProcessUsedInterfaces(gr, used, local_impl, reg, structure, linkage) ==
    IF used = <<>>
    THEN [reg |-> reg, structure |-> structure, linkage |-> linkage]
    ELSE LET iface == Head(used)[1]
             comps == Head(used)[2]
             interface_structure_exists ==
                 iface \in DOMAIN reg /\ Len(reg[iface]) > 0
             impl_comp_str == GetImplCompFromLogicIface(gr, iface)
             has_impl == impl_comp_str # <<>> /\ impl_comp_str[1] \in gr.ids
             retval == GetHierarchyText(gr, impl_comp_str[1])
             uses == [i \in 1..Len(comps) |->
                          GenLinkText(comps[i], "-d[#green]->", iface, "uses")]
         IN IF interface_structure_exists
            THEN ProcessUsedInterfaces(gr, Tail(used), local_impl, reg,
                     structure, linkage \o uses)
            ELSE IF has_impl
            THEN ProcessUsedInterfaces(gr, Tail(used), local_impl,
                     IF iface \notin local_impl
                     THEN Put(reg, iface, <<impl_comp_str[1]>>) ELSE reg,
                     structure \o retval[3] \o retval[1] \o retval[2]
                         \o retval[4]
                         \o (IF iface \notin local_impl
                             THEN <<GenInterfaceElement(iface)>> ELSE <<>>),
                     Append(linkage,
                            GenLinkText(impl_comp_str[1], "-u->", iface,
                                        "implements")) \o uses)
            ELSE ProcessUsedInterfaces(gr, Tail(used), local_impl,
                     Put(reg, iface, NoImplementerMark),
                     Append(structure, GenInterfaceElement(iface)),
                     linkage \o uses)

\* ------------------------------------------------------------ draw_module
\* A call of draw_comp_incl_impl_int: its need, its white_box_view, the
\* sub-component it is at, and its structure_text and linkage_text.
Frame(need, white_box_view) ==
    [need |-> need, white_box_view |-> white_box_view, index |-> 1,
     structure |-> <<OpenBlock("component", need)>>, linkage |-> <<>>]

\* Mutant: a need that includes something is taken to be a container too.
IsContainerOrIncludes(gr, need) ==
    gr.consists_of[need] # <<>> \/ gr.includes[need] # <<>>

\* bool(curr_need.get("consists_of"))
IsContainer(gr, need) == gr.consists_of[need] # <<>>

\* Mutant: no include is taken to be misspelled.
NeverMisspelled(gr, need_inc) == FALSE

\* "check for misspelled include": all_needs.get(need_inc, {}) is empty.
Misspelled(gr, need_inc) == need_inc \notin gr.ids

\* Mutant: sub_components is built by extending the need's own includes
\* list with its consists_of list.
NeedsAfterExtend(gr, need, white_box_view) ==
    IF white_box_view
    THEN [gr EXCEPT !.includes[need] = @ \o gr.consists_of[need]]
    ELSE gr

\* all_needs once a call of draw_comp_incl_impl_int has built
\* sub_components: the sum of the two lists is a new list, and the need
\* keeps its own.
NeedsAfterSubComponents(gr, need, white_box_view) == gr

\* The modules are drawn in the order the set modules_to_draw is iterated.
\* draw_module up to its loop over the includes.
ModuleBegin ==
    /\ pc = "modules"
    /\ \E m \in modules_left :
        /\ modules_left' = modules_left \ {m}
        /\ IF m \in Range(proc_modules)
           THEN UNCHANGED <<pc, module_vars, proc_impl_interfaces>>
           ELSE LET impl == DrawImplInterface(all_needs, m, 1)
                IN IF impl.err
                   THEN /\ pc' = "RecursionError"
                        /\ UNCHANGED <<module_vars, proc_impl_interfaces>>
                   ELSE \E order \in Orders(impl.ifaces) :
                        LET drawn == ProcessImplInterfaces(all_needs, m,
                                         order, proc_impl_interfaces, <<>>)
                        IN /\ pc' = "includes"
                           /\ module' = m
                           /\ local_impl_interfaces' = impl.ifaces
                           /\ proc_impl_interfaces' = drawn.reg
                           /\ module_structure' =
                                  Append(drawn.structure,
                                         OpenBlock("package", m))
                           /\ module_linkage' = <<>>
                           /\ include_index' = 1
    /\ UNCHANGED <<request, root, all_needs, closure_vars,
                   all_related_components, modules_to_draw,
                   components_in_modules_only, proc_modules, impl_comp,
                   proc_used_interfaces, structure_text, link_text, stack>>
    /\ UNCHANGED diagram_vars

\* One pass of draw_module's loop over the includes: the include is skipped,
\* or draw_comp_incl_impl_int is called on it.  curr_need["type"] raises
\* KeyError on the empty record of an absent need.
ModuleInclude ==
    /\ pc = "includes"
    /\ include_index <= Len(all_needs.includes[module])
    /\ LET need_inc == all_needs.includes[module][include_index]
       IN IF Misspelled(all_needs, need_inc)
              \/ (need_inc \in all_needs.ids
                      /\ TypeOf(need_inc) \notin {"comp", "mod"})
          THEN /\ include_index' = include_index + 1
               /\ UNCHANGED <<pc, stack, all_needs>>
          ELSE IF need_inc \notin all_needs.ids
          THEN /\ pc' = "KeyError"
               /\ UNCHANGED <<include_index, stack, all_needs>>
          ELSE /\ stack' = <<Frame(need_inc, IsContainer(all_needs, need_inc))>>
               /\ all_needs' = NeedsAfterSubComponents(all_needs, need_inc,
                                   IsContainer(all_needs, need_inc))
               /\ pc' = "comp"
               /\ UNCHANGED include_index
    /\ UNCHANGED <<request, root, closure_vars, collect_vars,
                   module, local_impl_interfaces, module_structure,
                   module_linkage, registry_vars, structure_text, link_text>>
    /\ UNCHANGED diagram_vars

\* What the feature's link_text is after a module is drawn.
LinkTextAfterModule(before, linkage) == linkage

\* draw_module after the loop, and the feature's use of what it returns.
ModuleEnd ==
    /\ pc = "includes"
    /\ include_index > Len(all_needs.includes[module])
    /\ LET r == ProcessUsedInterfaces(all_needs, proc_used_interfaces,
                    local_impl_interfaces, proc_impl_interfaces,
                    Append(module_structure, CloseBlock(module)),
                    module_linkage)
           linkage == RemoveDuplicateLinks(AppendLines(EmptyText, r.linkage))
       IN /\ proc_impl_interfaces' = r.reg
          /\ structure_text' = structure_text \o r.structure
          /\ link_text' = LinkTextAfterModule(link_text, linkage)
          /\ module_linkage' = r.linkage
    /\ proc_modules' = Append(proc_modules, module)
    /\ pc' = "modules"
    /\ UNCHANGED <<request, root, all_needs, closure_vars,
                   all_related_components, modules_to_draw, modules_left,
                   components_in_modules_only, impl_comp, module,
                   local_impl_interfaces, module_structure, include_index,
                   proc_used_interfaces, stack>>
    /\ UNCHANGED diagram_vars

\* ------------------------------------------------ draw_comp_incl_impl_int
Top == stack[Len(stack)]

\* need.get("includes", []) + need.get("consists_of", []) when white-box
SubComponents(gr, frame) ==
    IF frame.white_box_view
    THEN gr.includes[frame.need] \o gr.consists_of[frame.need]
    ELSE <<>>

\* One pass of the loop over the sub-components: the sub-component is
\* skipped, or draw_comp_incl_impl_int calls itself on it.  curr_need["type"]
\* raises KeyError on the empty record of an absent need.
CompSub ==
    /\ pc = "comp"
    /\ Top.index <= Len(SubComponents(all_needs, Top))
    /\ LET need_inc == SubComponents(all_needs, Top)[Top.index]
           advanced == [stack EXCEPT ![Len(stack)].index = @ + 1]
       IN IF Misspelled(all_needs, need_inc)
              \/ (need_inc \in all_needs.ids
                      /\ TypeOf(need_inc) \notin {"comp", "comp_arc_sta"})
          THEN stack' = advanced /\ pc' = pc /\ all_needs' = all_needs
          ELSE IF need_inc \notin all_needs.ids
          THEN stack' = stack /\ pc' = "KeyError" /\ all_needs' = all_needs
          ELSE IF Len(stack) >= RecursionLimit
          THEN stack' = stack /\ pc' = "RecursionError"
                   /\ all_needs' = all_needs
          ELSE /\ stack' = Append(advanced,
                               Frame(need_inc, IsContainer(all_needs, need_inc)))
               /\ all_needs' = NeedsAfterSubComponents(all_needs, need_inc,
                                   IsContainer(all_needs, need_inc))
               /\ pc' = pc
    /\ UNCHANGED <<request, root, closure_vars, collect_vars,
                   module_vars, registry_vars, structure_text, link_text>>
    /\ UNCHANGED diagram_vars

\* The end of a call: the block is closed, the need's interfaces are
\* processed, and the caller appends what is returned.
CompReturn ==
    /\ pc = "comp"
    /\ Top.index > Len(SubComponents(all_needs, Top))
    /\ LET need == Top.need
           structure == Append(Top.structure, CloseBlock(need))
           impl == ProcessImplements(all_needs, need,
                       GetInterfaceFromComponent(all_needs, need, "implements"),
                       proc_impl_interfaces, Top.linkage)
           used == ProcessUses(all_needs, need,
                       GetInterfaceFromComponent(all_needs, need, "uses"),
                       proc_used_interfaces)
           callers == SubSeq(stack, 1, Len(stack) - 1)
       IN /\ proc_impl_interfaces' = impl.reg
          /\ proc_used_interfaces' = used
          /\ IF callers # <<>>
             THEN /\ stack' = [callers EXCEPT
                        ![Len(callers)].structure = @ \o structure,
                        ![Len(callers)].linkage = @ \o impl.linkage]
                  /\ UNCHANGED <<pc, module_structure, module_linkage,
                                 include_index, structure_text, link_text>>
             ELSE /\ stack' = <<>>
                  /\ IF request = "feature"
                     THEN /\ module_structure' = module_structure \o structure
                          /\ module_linkage' = module_linkage \o impl.linkage
                          /\ include_index' = include_index + 1
                          /\ pc' = "includes"
                          /\ UNCHANGED <<structure_text, link_text>>
                     ELSE /\ structure_text' = structure
                          /\ link_text' = AppendLines(EmptyText, impl.linkage)
                          /\ pc' = "drawn"
                          /\ UNCHANGED <<module_structure, module_linkage,
                                         include_index>>
    /\ UNCHANGED <<request, root, all_needs, closure_vars, collect_vars,
                   module, local_impl_interfaces>>
    /\ UNCHANGED diagram_vars

\* ------------------------------------------------- implementers and links
\* Mutant: the components drawn inside a module are not left out.
FilteredCompsInModulesToo(gr, iface, related, in_modules_only) ==
    Filter(GetImplCompFromLogicIface(gr, iface), related)

\* The implementers of an interface that get an explicit edge.
FilteredComps(gr, iface, related, in_modules_only) ==
    Filter(GetImplCompFromLogicIface(gr, iface), related \ in_modules_only)

\* The impl_comp mapping: an entry for every related interface of the graph
\* that has a filtered implementer.
ImplCompMapping(gr, ifaces, related, in_modules_only) ==
    LET keys == {i \in ifaces \cap gr.ids :
                     FilteredComps(gr, i, related, in_modules_only) # <<>>}
    IN [i \in keys |-> FilteredComps(gr, i, related, in_modules_only)]

\* After the modules are drawn: the impl_comp mapping.
CollectImplComp ==
    /\ pc = "modules"
    /\ modules_left = {}
    /\ impl_comp' = ImplCompMapping(all_needs, all_related_interfaces,
                        all_related_components, components_in_modules_only)
    /\ pc' = "links"
    /\ UNCHANGED <<request, root, all_needs, closure_vars,
                   all_related_components, modules_to_draw, modules_left,
                   components_in_modules_only, proc_modules, module_vars,
                   registry_vars, structure_text, link_text, stack>>
    /\ UNCHANGED diagram_vars

\* Whether _build_links draws the actor edge of an interface of impl_comp.
HasActorLink(iface, original_feature_interfaces) ==
    iface \in Range(original_feature_interfaces)

\* _build_links for one interface
LinksOf(gr, iface, mapping, original_feature_interfaces) ==
    LET impl_comps == Get(mapping, iface)
        present == Filter(impl_comps, gr.ids)
    IN IF impl_comps = <<>> THEN <<>>
       ELSE (IF HasActorLink(iface, original_feature_interfaces)
             THEN <<GenLinkText(Feature_User, "-d->", iface, "use")>>
             ELSE <<>>)
            \o [i \in 1..Len(present) |->
                    GenLinkText(present[i], "-u->", iface, "implements")]

RECURSIVE BuildLinks(_, _, _, _)
BuildLinks(gr, all_interfaces, mapping, original_feature_interfaces) ==
    IF all_interfaces = <<>> THEN <<>>
    ELSE LinksOf(gr, Head(all_interfaces), mapping, original_feature_interfaces)
         \o BuildLinks(gr, Tail(all_interfaces), mapping,
                       original_feature_interfaces)

\* The end of __call__: the links are built and the duplicates removed.  The
\* order of the keys of impl_comp only orders lines that are then put in a
\* set.
FeatureLinks ==
    /\ pc = "links"
    /\ link_text' = RemoveDuplicateLinks(AppendLines(link_text,
           BuildLinks(all_needs, Filter(AllIds, DOMAIN impl_comp), impl_comp,
                      interfacelist)))
    /\ pc' = "done"
    /\ UNCHANGED <<request, root, all_needs, closure_vars, collect_vars,
                   module_vars, registry_vars, structure_text, stack>>
    /\ UNCHANGED diagram_vars

\* ---------------------------------------------------- draw_full_component
\* __call__: draw_comp_incl_impl_int on the component, white-box.
ComponentCall ==
    /\ pc = "start"
    /\ request = "component"
    /\ stack' = <<Frame(root, TRUE)>>
    /\ all_needs' = NeedsAfterSubComponents(all_needs, root, TRUE)
    /\ pc' = "comp"
    /\ UNCHANGED <<request, root, closure_vars, collect_vars,
                   module_vars, registry_vars, structure_text, link_text>>
    /\ UNCHANGED diagram_vars

\* The blocks of the interfaces of the graph, in the order given.
InterfaceElements(gr, order) ==
    LET present == Filter(order, gr.ids)
    IN [i \in 1..Len(present) |-> GenInterfaceElement(present[i])]

\* __call__ after the component is drawn: the implemented interfaces.
ComponentInterfaces ==
    /\ pc = "drawn"
    /\ LET impl == DrawImplInterface(all_needs, root, 1)
       IN IF impl.err
          THEN pc' = "RecursionError" /\ UNCHANGED structure_text
          ELSE /\ \E order \in Orders(impl.ifaces) :
                      structure_text' =
                          structure_text \o InterfaceElements(all_needs, order)
               /\ pc' = "done"
    /\ UNCHANGED <<request, root, all_needs, closure_vars, collect_vars,
                   module_vars, registry_vars, link_text, stack>>
    /\ UNCHANGED diagram_vars

\* ------------------------------------------------------------------ spec
Next ==
    \/ FeatureCall
    \/ LoopStep
    \/ CollectModules
    \/ ModuleBegin
    \/ ModuleInclude
    \/ CompSub
    \/ CompReturn
    \/ ModuleEnd
    \/ CollectImplComp
    \/ FeatureLinks
    \/ ComponentCall
    \/ ComponentInterfaces

Spec == Init /\ [][Next]_vars

\* The feature closure alone, _collect_interfaces_and_modules up to the
\* modules it finds, on graphs that vary what the closure reads.
ClosureGraphs ==
    {[ids |-> Ids,
      includes |-> [NoRel EXCEPT ![F] = fi, ![M1] = <<C1>>, ![M2] = <<C2>>],
      consists_of |-> [NoRel EXCEPT ![F] = fc],
      implements |-> [NoRel EXCEPT ![C1] = <<I1>>, ![C2] = c2i,
                                   ![C3] = c3i, ![CX] = cxi],
      uses |-> [NoRel EXCEPT ![C1] = c1u, ![C2] = c2u, ![C3] = c3u,
                             ![CX] = cxu],
      owner |-> [NoRel EXCEPT ![IO1] = I1]] :
        fi \in {<<I1>>, <<IO1, I1, I2>>},
        fc \in {<<C1>>, <<C1, CX>>},
        c1u \in {<<>>, <<I2>>, <<I2, I3>>},
        c2i \in {<<>>, <<I2>>, <<I1>>, <<I1, I2>>},
        c2u \in {<<>>, <<I3>>, <<I3, I2>>},
        c3i \in {<<>>, <<I3>>},
        c3u \in {<<>>, <<I2>>, <<I1>>},
        cxi \in {<<>>, <<I2>>},
        cxu \in {<<>>, <<I3>>}}

ClosureInit ==
    /\ request = "feature" /\ root = F /\ all_needs \in ClosureGraphs
    /\ Fresh
    /\ NoDiagram

ClosureNext == FeatureCall \/ LoopStep \/ CollectModules

\* The closure is one synchronous call: the loop does not stop while it has
\* an iteration to run, nor before the statement that follows it.
ClosureSpec ==
    /\ ClosureInit
    /\ [][ClosureNext]_vars
    /\ WF_vars(LoopStep)
    /\ WF_vars(CollectModules)

\* ---------------------------------------------------------------- claims
\* What the claims below speak of.
Uses(c) == Range(GetInterfaceFromComponent(all_needs, c, "uses"))

Implements(c) == Range(all_needs.implements[c])

\* The interfaces that have been in the work queue.
Enqueued == Range(interfaces_to_process) \cup visited_interfaces

\* The components whose used interfaces the closure puts in the queue:
\* the primary components and the secondary components that are not external.
Expanded ==
    primary_components \cup {c \in secondary_components : ~IsExternalBaselib(c)}

OnPath == [i \in 1..Len(stack) |-> stack[i].need]

\* C1 (as claimed): when draw_comp_incl_impl_int is called white-box on a
\* root component, no component is expanded again on the current expansion
\* path and no failure is raised, so the rendering terminates.
C1_NestingBreaksCycles ==
    request = "component" =>
        /\ NoDup(OnPath)
        /\ ~(pc = "RecursionError" /\ stack # <<>>)

\* C2: the fixed-point loop of the feature closure terminates: once entered,
\* the work queue becomes empty and the closure goes on to the modules.
C2_LoopTerminates == (pc = "loop") ~> (pc = "modules")

C2_Witness ==
    /\ pc = "modules"
    /\ {I2, I3} \subseteq visited_interfaces
    /\ I2 \in Implements(C2) /\ I3 \in Uses(C2)
    /\ I3 \in Implements(C3) /\ I2 \in Uses(C3)

\* C3 (as claimed): an interface used by an external component is in the
\* work queue only when a component of the closure that is not external
\* uses it too, so an external component never causes an interface to be
\* enqueued.
C3_ExternalNeverEnqueues ==
    \A x \in Components : IsExternalBaselib(x) =>
        \A i \in Uses(x) \cap Enqueued :
            \E c \in Expanded \ {x} : ~IsExternalBaselib(c) /\ i \in Uses(c)

\* C3 (amended): an external component that is not a primary component of
\* the feature never causes an interface it uses to be enqueued: such an
\* interface is in the work queue only when a component the closure expands
\* (a primary component, or a secondary component that is not external)
\* uses it.
C3_ExternalSecondaryNeverEnqueues ==
    \A x \in Components \ primary_components : IsExternalBaselib(x) =>
        \A i \in Uses(x) \cap Enqueued :
            \E c \in Expanded \ {x} : i \in Uses(c)

C3_Witness ==
    /\ pc = "modules"
    /\ CX \in secondary_components
    /\ I3 \in Uses(CX)
    /\ I3 \notin Enqueued

\* C4 (as claimed): every secondary component implements an interface taken
\* from the queue, is not external and is not a primary component.
C4_SecondaryNotExternal ==
    \A c \in secondary_components :
        /\ \E i \in visited_interfaces : i \in Implements(c)
        /\ ~IsExternalBaselib(c)
        /\ c \notin primary_components

\* C4 (amended): every secondary component implements an interface taken
\* from the queue and is not a primary component; it may be external.
C4_SecondaryImplementsVisited ==
    \A c \in secondary_components :
        /\ \E i \in visited_interfaces : i \in Implements(c)
        /\ c \notin primary_components

C4_Witness ==
    /\ pc = "loop"
    /\ interfaces_to_process # <<>>
    /\ C2 \in secondary_components
    /\ CX \in secondary_components

\* An interface the component uses is in the work queue only when another
\* component that the closure expands uses it.
NotEnqueuedBecauseOf(c) ==
    \A i \in Uses(c) \cap Enqueued : \E d \in Expanded \ {c} : i \in Uses(d)

Displayed(c) == pc \in {"modules", "includes", "comp", "links", "done"} =>
                    c \in all_related_components

InDrawnModule(c) ==
    \E m \in modules_to_draw : c \in Range(all_needs.includes[m])

\* C6 (as claimed): every component listed for an interface in impl_comp
\* implements the interface, is a primary or a secondary component, is not
\* external, and is not a non-primary member of a module that is drawn.
C6_MappingPrimaryOrSecondary ==
    \A i \in DOMAIN impl_comp : \A c \in Range(impl_comp[i]) :
        /\ i \in Implements(c)
        /\ c \in primary_components \cup secondary_components
        /\ ~IsExternalBaselib(c)
        /\ ~(c \notin primary_components /\ InDrawnModule(c))

\* C6 (amended): every component listed for an interface in impl_comp
\* implements the interface, is a primary component, a secondary component
\* or a primary-interface implementer, and is not a non-primary member of a
\* module that is drawn; external components are not left out.
C6_MappingRelatedNotInModule ==
    \A i \in DOMAIN impl_comp : \A c \in Range(impl_comp[i]) :
        /\ i \in Implements(c)
        /\ c \in primary_components \cup secondary_components
                     \cup primary_interface_implementers
        /\ ~(c \notin primary_components /\ InDrawnModule(c))

C6_Witness ==
    /\ pc = "done"
    /\ I2 \in DOMAIN impl_comp
    /\ CX \in Range(impl_comp[I2])
    /\ I2 \in Implements(C2)
    /\ C2 \in secondary_components
    /\ InDrawnModule(C2)
    /\ C2 \notin Range(impl_comp[I2])

ActorLine(i) == GenLinkText(Feature_User, "-d->", i, "use")

ImplementsLine(c, i) == GenLinkText(c, "-u->", i, "implements")

UsesLine(c, i) == GenLinkText(c, "-d[#green]->", i, "uses")

\* C7 (as claimed): the final link text of a feature has the edge from
\* Feature_User to an interface exactly when the interface is a primary
\* interface of the feature.
C7_ActorEdgeIffPrimary ==
    pc = "done" /\ request = "feature" =>
        \A i \in Interfaces :
            ActorLine(i) \in LinesOf(link_text) <=> i \in primary_interfaces

\* The graphs of the feature-closure scenario: C1 is the primary component,
\* implements I1 and uses I2, C2 implements I2, and nothing else is related;
\* M1 and M2 include what they will.
FeatureClosureScenario ==
    /\ request = "feature"
    /\ all_needs.includes[F] = <<I1>>
    /\ all_needs.consists_of[F] = <<C1>>
    /\ all_needs.implements = [NoRel EXCEPT ![C1] = <<I1>>, ![C2] = <<I2>>]
    /\ all_needs.uses = [NoRel EXCEPT ![C1] = <<I2>>]
    /\ \A c \in Components : all_needs.consists_of[c] = <<>>

\* C8 (as claimed): in the feature-closure scenario, wherever C1 and C2 are
\* placed in modules, the closure covers C1, C2, I1 and I2, and the final
\* link text has the edge from Feature_User to I1, none to I2, and the
\* implements edges from C1 to I1 and from C2 to I2.
C8_ScenarioEdges ==
    pc = "done" /\ FeatureClosureScenario =>
        /\ {C1, C2} \subseteq all_related_components
        /\ {I1, I2} \subseteq all_related_interfaces
        /\ ActorLine(I1) \in LinesOf(link_text)
        /\ ActorLine(I2) \notin LinesOf(link_text)
        /\ ImplementsLine(C1, I1) \in LinesOf(link_text)
        /\ ImplementsLine(C2, I2) \in LinesOf(link_text)

RECURSIVE Count(_, _)
Count(s, x) ==
    IF s = <<>> THEN 0
    ELSE (IF Head(s) = x THEN 1 ELSE 0) + Count(Tail(s), x)

\* C9 (as claimed): over the draw_module calls of one feature request, which
\* share the two registries, the block of an interface is in the structure
\* text at most once.
C9_InterfaceBlockOnce ==
    request = "feature" =>
        \A i \in Interfaces :
            Count(structure_text, GenInterfaceElement(i)) <= 1

\* The implements edges that rendering the modules has emitted: an edge is
\* emitted whenever a component is credited for an interface in the
\* implemented-interfaces registry.
EmittedImplementsLines ==
    {ImplementsLine(c, i) : c \in Components, i \in Interfaces} \cap
    UNION {{ImplementsLine(proc_impl_interfaces[i][k], i) :
                k \in 1..Len(proc_impl_interfaces[i])} :
               i \in DOMAIN proc_impl_interfaces}

\* C10 (as claimed): every edge line emitted while a module of the feature
\* was rendered is in the final link text.
C10_EmittedLinesKept ==
    pc = "done" /\ request = "feature" =>
        /\ EmittedImplementsLines \subseteq LinesOf(link_text)
        /\ \A p \in UsedPairs(proc_used_interfaces) :
               UsesLine(p[2], p[1]) \in LinesOf(link_text)

\* C11 (as claimed): when a feature diagram is done, every component that
\* implements a primary interface and is neither primary nor external has
\* its component block in the structure text, and every module of the
\* closure has its package block in the structure text.
C11_ImplementersAndModulesDrawn ==
    pc = "done" /\ request = "feature" =>
        /\ \A c \in primary_interface_implementers :
               OpenBlock("component", c) \in Range(structure_text)
        /\ \A m \in modules_to_draw :
               OpenBlock("package", m) \in Range(structure_text)

\* C12: whenever draw_module has returned, and when the feature diagram is
\* done, the link text has a uses edge from the consumer to the interface
\* for every (interface, consumer) pair of the used-interfaces registry,
\* whichever module recorded the pair and whenever the block of the
\* interface was drawn.
C12_UsesEdgeForEveryPair ==
    request = "feature" /\ pc \in {"modules", "links", "done"} =>
        \A p \in UsedPairs(proc_used_interfaces) :
            UsesLine(p[2], p[1]) \in LinesOf(link_text)

C12_Witness ==
    /\ pc = "done"
    /\ Len(proc_modules) = 2
    /\ proc_modules[2] = M2
    /\ <<I2, C1>> \in UsedPairs(proc_used_interfaces)
    /\ <<I3, C2>> \in UsedPairs(proc_used_interfaces)
    /\ UsesLine(C1, I2) \in LinesOf(link_text)

\* C13: no step of a request changes the need graph: all_needs is after the
\* step what it was before it.
C13_GraphNotMutated == [][all_needs' = all_needs]_vars

C13_Witness ==
    /\ pc = "done"
    /\ request = "feature"
    /\ Len(proc_modules) = 2
    /\ IsContainer(all_needs, C1)
    /\ OpenBlock("component", C3) \in Range(structure_text)
    /\ I2 \in DOMAIN impl_comp

\* ------------------------------------------------- dangling references
\* The graph without the needs of a set: the relations of the other needs
\* still name them.
Without(gr, absent) ==
    [ids |-> gr.ids \ absent,
     includes |-> [id \in Ids |-> IF id \in absent THEN <<>>
                                  ELSE gr.includes[id]],
     consists_of |-> [id \in Ids |-> IF id \in absent THEN <<>>
                                     ELSE gr.consists_of[id]],
     implements |-> [id \in Ids |-> IF id \in absent THEN <<>>
                                    ELSE gr.implements[id]],
     uses |-> [id \in Ids |-> IF id \in absent THEN <<>> ELSE gr.uses[id]],
     owner |-> gr.owner]

\* Feature graphs without containment cycle, some of their needs missing.
DanglingFeatureGraphs ==
    {Without(gr, absent) :
        gr \in {g \in FeatureGraphs : g.consists_of[C3] = <<>>},
        absent \in {{C3}, {I2}, {I3, CX}, {C1}}}

\* Component graphs without containment cycle, some of their needs missing.
DanglingComponentGraphs ==
    {Without(gr, absent) :
        gr \in {g \in ComponentGraphs : /\ g.consists_of[C3] = <<>>
                                        /\ g.consists_of[C2] # <<C1>>},
        absent \in {{C3}, {C2}, {I1, I3}}}

DanglingInit ==
    /\ \/ request = "feature" /\ root = F
              /\ all_needs \in DanglingFeatureGraphs
       \/ request = "component" /\ root = C1
              /\ all_needs \in DanglingComponentGraphs
    /\ Fresh
    /\ NoDiagram

DanglingSpec == DanglingInit /\ [][Next]_vars

\* The ids a line of the structure text or of the link text names.
MentionedIds(line) ==
    IF Len(line) = 2 THEN {line[2]}
    ELSE IF Len(line) = 4 THEN {line[1], line[3]}
    ELSE {}

EmittedLines ==
    Range(structure_text) \cup LinesOf(link_text)
        \cup Range(module_structure) \cup Range(module_linkage)
        \cup UNION {Range(stack[i].structure) \cup Range(stack[i].linkage) :
                        i \in 1..Len(stack)}

\* C14: on a graph whose relation fields name absent ids, no rendering
\* raises an error, and no block and no edge names an absent id.
C14_DanglingSkipped ==
    /\ pc \notin {"KeyError", "RecursionError"}
    /\ \A line \in EmittedLines :
           MentionedIds(line) \subseteq all_needs.ids \cup {Feature_User}

C14_Witness ==
    /\ pc = "done"
    /\ request = "feature"
    /\ C3 \notin all_needs.ids
    /\ C3 \in Range(all_needs.consists_of[C1])
    /\ C3 \in Range(all_needs.includes[M2])
    /\ {M1, M2} \subseteq Range(proc_modules)
    /\ OpenBlock("component", C1) \in Range(structure_text)

\* ======================================================== class diagrams
\* Model of src/src/extensions/score_metamodel/diagram.py: ClassDiagram and
\* PlantUmlRenderer.  A string is the sequence of its characters, so that
\* the order of strings, the sanitizing of a name and the quoting of a
\* display name are computed.
Upper == <<"A", "B", "C", "D", "E", "F", "G", "H", "I", "J", "K", "L", "M",
           "N", "O", "P", "Q", "R", "S", "T", "U", "V", "W", "X", "Y", "Z">>

Lower == <<"a", "b", "c", "d", "e", "f", "g", "h", "i", "j", "k", "l", "m",
           "n", "o", "p", "q", "r", "s", "t", "u", "v", "w", "x", "y", "z">>

Digits == <<"0", "1", "2", "3", "4", "5", "6", "7", "8", "9">>

IndexIn(s, ch) == CHOOSE i \in 1..Len(s) : s[i] = ch

\* ord(ch)
Code(ch) ==
    IF ch \in Range(Upper) THEN 64 + IndexIn(Upper, ch)
    ELSE IF ch \in Range(Lower) THEN 96 + IndexIn(Lower, ch)
    ELSE IF ch \in Range(Digits) THEN 47 + IndexIn(Digits, ch)
    ELSE CASE ch = " " -> 32
           [] ch = "\"" -> 34
           [] ch = "." -> 46
           [] ch = ":" -> 58
           [] ch = "<" -> 60
           [] ch = ">" -> 62
           [] ch = "\\" -> 92
           [] ch = "_" -> 95

\* a < b on strings: by code point, a proper prefix first
RECURSIVE StrLess(_, _)
StrLess(a, b) ==
    IF b = <<>> THEN FALSE
    ELSE IF a = <<>> THEN TRUE
    ELSE IF Head(a) # Head(b) THEN Code(Head(a)) < Code(Head(b))
    ELSE StrLess(Tail(a), Tail(b))

\* a < b on tuples of strings
RECURSIVE TupleLess(_, _)
TupleLess(a, b) ==
    IF b = <<>> THEN FALSE
    ELSE IF a = <<>> THEN TRUE
    ELSE IF Head(a) # Head(b) THEN StrLess(Head(a), Head(b))
    ELSE TupleLess(Tail(a), Tail(b))

\* sorted(s, key=...) as the order of the indices of s, given the keys of
\* its elements: a stable sort, equal keys keep their order.  (x \in {e}
\* names the value of e, which is then computed once.)
RECURSIVE SortedIndices(_)
SortedIndices(key_seq) ==
    CHOOSE sorted \in
        {IF keys = <<>> THEN <<>>
         ELSE CHOOSE inserted \in
                  {LET last == Len(keys)
                       n == Cardinality({i \in 1..Len(rest) :
                                ~TupleLess(keys[last], keys[rest[i]])})
                   IN SubSeq(rest, 1, n) \o <<last>>
                          \o SubSeq(rest, n + 1, Len(rest)) :
                       rest \in {SortedIndices(SubSeq(keys, 1, Len(keys) - 1))}} :
                  TRUE :
             keys \in {key_seq}} : TRUE

Sorted(s, keys) ==
    CHOOSE sorted \in {[i \in 1..Len(s) |-> s[order[i]]] :
                           order \in {SortedIndices(keys)}} : TRUE

\* str(n) for the counters of the alias map
Str(n) == IF n < 10 THEN <<Digits[n + 1]>>
          ELSE <<Digits[(n \div 10) + 1], Digits[(n % 10) + 1]>>

\* -------------------------------------------------------- ClassDiagram
\* An optional string is None or <<the string>>, so that None and the empty
\* string differ.
Some(s) == <<s>>

\* bool(x) of an optional string
Truthy(opt) == opt # None /\ opt[1] # <<>>

ClassNames(d) == {d.classes[i].name : i \in 1..Len(d.classes)}

ClassIndex(d, name) == CHOOSE i \in 1..Len(d.classes) : d.classes[i].name = name

\* ClassNode(name=name, stereotype=stereotype)
ClassNode(name, stereotype) ==
    [name |-> name, stereotype |-> stereotype, members |-> <<>>]

\* Mutant: a later stereotype replaces the one the node has.
StereotypeAfterLast(old, new) == IF new # None THEN new ELSE old

\* The stereotype of an existing node after _ensure_class.
StereotypeAfter(old, new) == IF new # None /\ old = None THEN new ELSE old

\* _ensure_class: err when ValueError is raised; d is the diagram then.
EnsureClass(d, name, stereotype) ==
    IF name = <<>> THEN [err |-> TRUE, d |-> d]
    ELSE IF name \notin ClassNames(d)
    THEN [err |-> FALSE,
          d |-> [d EXCEPT !.classes = Append(@, ClassNode(name, stereotype))]]
    ELSE [err |-> FALSE,
          d |-> [d EXCEPT !.classes[ClassIndex(d, name)].stereotype =
                              StereotypeAfter(@, stereotype)]]

AddClass(d, name, stereotype) == EnsureClass(d, name, stereotype)

\* Member(member_name, visibility, type_hint)
Member(name, visibility, type_hint) ==
    [name |-> name, visibility |-> visibility, type_hint |-> type_hint]

\* Mutant: the class is ensured before the member name is checked.
AddMemberChecksLate(d, class_name, member_name, visibility, type_hint) ==
    LET r == EnsureClass(d, class_name, None)
    IN IF r.err \/ member_name = <<>> THEN [err |-> TRUE, d |-> r.d]
       ELSE [err |-> FALSE,
             d |-> [r.d EXCEPT !.classes[ClassIndex(r.d, class_name)].members =
                        Append(@, Member(member_name, visibility, type_hint))]]

AddMember(d, class_name, member_name, visibility, type_hint) ==
    IF member_name = <<>> THEN [err |-> TRUE, d |-> d]
    ELSE LET r == EnsureClass(d, class_name, None)
         IN IF r.err THEN r
            ELSE [err |-> FALSE,
                  d |-> [r.d EXCEPT
                           !.classes[ClassIndex(r.d, class_name)].members =
                               Append(@, Member(member_name, visibility,
                                                type_hint))]]

\* Relation(src=src, dst=dst, kind=kind, label=label)
Relation(src, dst, kind, label) ==
    [src |-> src, dst |-> dst, kind |-> kind, label |-> label]

\* Mutant: only the source of the relation is ensured.
RelateEnsuresSrcOnly(d, src, dst, kind, label) ==
    IF src = <<>> \/ dst = <<>> THEN [err |-> TRUE, d |-> d]
    ELSE LET a == EnsureClass(d, src, None)
         IN [err |-> FALSE,
             d |-> [a.d EXCEPT !.relations =
                        Append(@, Relation(src, dst, kind, label))]]

Relate(d, src, dst, kind, label) ==
    IF src = <<>> \/ dst = <<>> THEN [err |-> TRUE, d |-> d]
    ELSE LET a == EnsureClass(d, src, None)
             b == EnsureClass(a.d, dst, None)
         IN [err |-> FALSE,
             d |-> [b.d EXCEPT !.relations =
                        Append(@, Relation(src, dst, kind, label))]]

\* ------------------------------------------------------------ _AliasMap
\* VALID_CHARS = [A-Za-z0-9_]
IsValidChar(ch) ==
    \/ Code(ch) \in Code("A")..Code("Z")
    \/ Code(ch) \in Code("a")..Code("z")
    \/ Code(ch) \in Code("0")..Code("9")
    \/ ch = "_"

\* str.strip("_")
RECURSIVE StripLeft(_)
StripLeft(s) ==
    IF s # <<>> /\ Head(s) = "_" THEN StripLeft(Tail(s)) ELSE s

RECURSIVE StripRight(_)
StripRight(s) ==
    IF s # <<>> /\ s[Len(s)] = "_"
    THEN StripRight(SubSeq(s, 1, Len(s) - 1)) ELSE s

Strip(s) == StripRight(StripLeft(s))

\* Mutant: a name without any valid character becomes the alias "_".
SanitizeNeverFails(name) ==
    LET alias == Strip([i \in 1..Len(name) |->
                            IF IsValidChar(name[i]) THEN name[i] ELSE "_"])
    IN [err |-> FALSE, alias |-> IF alias = <<>> THEN <<"_">> ELSE alias]

\* _sanitize: err when ValueError is raised
Sanitize(name) ==
    LET alias == Strip([i \in 1..Len(name) |->
                            IF IsValidChar(name[i]) THEN name[i] ELSE "_"])
    IN [err |-> alias = <<>>, alias |-> alias]

\* Mutant: the base is taken even when it is in use.
FirstFreeIgnoresUsed(used, base, alias, counter) == alias

\* The while loop of _create_alias
RECURSIVE FirstFree(_, _, _, _)
FirstFree(used, base, alias, counter) ==
    IF alias \in used
    THEN FirstFree(used, base, base \o <<"_">> \o Str(counter), counter + 1)
    ELSE alias

\* _create_alias: err when _sanitize raises; used is self._used after it
CreateAlias(used, name) ==
    LET base == Sanitize(name)
        alias == FirstFree(used, base.alias, base.alias, 2)
    IN IF base.err THEN [err |-> TRUE, alias |-> <<>>, used |-> used]
       ELSE [err |-> FALSE, alias |-> alias, used |-> used \cup {alias}]

\* __getitem__: err when ValueError is raised; am is the map after the call
GetItem(am, name) ==
    IF name \in DOMAIN am.map
    THEN [err |-> FALSE, alias |-> am.map[name], am |-> am]
    ELSE LET c == CreateAlias(am.used, name)
         IN IF c.err THEN [err |-> TRUE, alias |-> <<>>, am |-> am]
            ELSE [err |-> FALSE, alias |-> c.alias,
                  am |-> [map |-> Put(am.map, name, c.alias),
                          used |-> c.used]]

\* ------------------------------------------------------ PlantUmlRenderer
\* RelationKind.value, the string the relations are sorted by
KindValue(kind) ==
    CASE kind = "association" ->
             <<"a", "s", "s", "o", "c", "i", "a", "t", "i", "o", "n">>
      [] kind = "undirected" ->
             <<"u", "n", "d", "i", "r", "e", "c", "t", "e", "d">>
      [] kind = "inheritance" ->
             <<"i", "n", "h", "e", "r", "i", "t", "a", "n", "c", "e">>
      [] kind = "implements" ->
             <<"i", "m", "p", "l", "e", "m", "e", "n", "t", "s">>
      [] kind = "dependency" ->
             <<"d", "e", "p", "e", "n", "d", "e", "n", "c", "y">>
      [] kind = "composition" ->
             <<"c", "o", "m", "p", "o", "s", "i", "t", "i", "o", "n">>
      [] kind = "aggregation" ->
             <<"a", "g", "g", "r", "e", "g", "a", "t", "i", "o", "n">>

\* Mutant: an association is drawn without its direction.
ArrowsWithoutDirection(kind) ==
    CASE kind \in {"association", "undirected"} -> <<"-", "-">>
      [] kind = "inheritance" -> <<"<", "|", "-", "-">>
      [] kind = "implements" -> <<"<", "|", ".", ".">>
      [] kind = "dependency" -> <<".", ".", ">">>
      [] kind = "composition" -> <<"*", "-", "-">>
      [] kind = "aggregation" -> <<"o", "-", "-">>

\* _ARROWS
Arrows(kind) ==
    CASE kind = "association" -> <<"-", "-", ">">>
      [] kind = "undirected" -> <<"-", "-">>
      [] kind = "inheritance" -> <<"<", "|", "-", "-">>
      [] kind = "implements" -> <<"<", "|", ".", ".">>
      [] kind = "dependency" -> <<".", ".", ">">>
      [] kind = "composition" -> <<"*", "-", "-">>
      [] kind = "aggregation" -> <<"o", "-", "-">>

\* str.replace(pat, repl): the occurrences from the left, not overlapping
RECURSIVE Replace(_, _, _)
Replace(text, pat, repl) ==
    CHOOSE replaced \in
        {IF Len(s) < Len(pat) THEN s
         ELSE IF SubSeq(s, 1, Len(pat)) = pat
         THEN repl \o Replace(SubSeq(s, Len(pat) + 1, Len(s)), pat, repl)
         ELSE <<Head(s)>> \o Replace(Tail(s), pat, repl) :
             s \in {text}} : TRUE

\* _quote
Quote(text) == <<"\"">> \o Replace(text, <<"\"">>, <<"\\", "\"">>) \o <<"\"">>

\* _escape_label
EscapeLabel(text) ==
    Replace(Replace(Replace(text, <<"\n">>, <<" ">>), <<"\r">>, <<" ">>),
            <<":">>, <<"\\", ":">>)

\* _escape_stereotype
EscapeStereotype(text) ==
    Replace(Replace(Replace(Replace(text, <<"\n">>, <<" ">>),
                            <<"\r">>, <<" ">>),
                    <<"<", "<">>, <<"<", " ", "<">>),
            <<">", ">">>, <<">", " ", ">">>)

\* A line of the rendered text, by its parts; a part that is left out is
\* empty.  "class {cid} as {display} <<{s}>> {", "  {visibility} {name} :
\* {type_hint}", "}", "{src} {arrow} {dst} : {label}".
ClassLine(cid, display, stereotype) ==
    [type |-> "class", a |-> cid, b |-> display, c |-> stereotype, e |-> <<>>]

\* Visibility.value
VisibilityValue(visibility) ==
    CASE visibility = "public" -> <<"+">>
      [] visibility = "private" -> <<"-">>
      [] visibility = "protected" -> <<"#">>
      [] visibility = "package" -> <<"~">>

MemberLine(m) ==
    [type |-> "member", a |-> VisibilityValue(m.visibility), b |-> m.name,
     c |-> IF Truthy(m.type_hint) THEN m.type_hint[1] ELSE <<>>, e |-> <<>>]

CloseLine == [type |-> "close", a |-> <<>>, b |-> <<>>, c |-> <<>>, e |-> <<>>]

RelationLine(src, arrow, dst, label) ==
    [type |-> "relation", a |-> src, b |-> arrow, c |-> label, e |-> dst]

\* key=lambda r: (r.src, r.dst, r.kind.value, r.label or "")
RelationKeys(relations) ==
    [i \in 1..Len(relations) |->
         <<relations[i].src, relations[i].dst, KindValue(relations[i].kind),
           IF Truthy(relations[i].label) THEN relations[i].label[1]
           ELSE <<>> >>]

\* The loop over the classes: err when alias[c.name] raises.
RECURSIVE RenderClasses(_, _, _)
RenderClasses(class_seq, alias_map0, lines0) ==
    CHOOSE result \in
        {IF classes = <<>> THEN [err |-> FALSE, am |-> am, lines |-> lines]
         ELSE CHOOSE rest \in
                  {IF cid.err THEN [err |-> TRUE, am |-> am, lines |-> lines]
                   ELSE LET c == Head(classes)
                            header ==
                                ClassLine(cid.alias, Quote(c.name),
                                    IF Truthy(c.stereotype)
                                    THEN EscapeStereotype(c.stereotype[1])
                                    ELSE <<>>)
                        IN RenderClasses(Tail(classes), cid.am,
                               lines \o <<header>>
                                   \o [i \in 1..Len(c.members) |->
                                           MemberLine(c.members[i])]
                                   \o <<CloseLine>>) :
                       cid \in {GetItem(am, Head(classes).name)}} : TRUE :
             classes \in {class_seq}, am \in {alias_map0}, lines \in {lines0}} :
        TRUE

\* The loop over the relations: err when alias[r.src] or alias[r.dst] raises.
RECURSIVE RenderRelations(_, _, _)
RenderRelations(relation_seq, alias_map0, lines0) ==
    CHOOSE result \in
        {IF relations = <<>> THEN [err |-> FALSE, am |-> am, lines |-> lines]
         ELSE CHOOSE rest \in
                  {IF src.err THEN [err |-> TRUE, am |-> am, lines |-> lines]
                   ELSE CHOOSE tail \in
                       {IF dst.err
                        THEN [err |-> TRUE, am |-> am, lines |-> lines]
                        ELSE LET r == Head(relations)
                             IN RenderRelations(Tail(relations), dst.am,
                                    Append(lines,
                                        RelationLine(src.alias, Arrows(r.kind),
                                            dst.alias,
                                            IF Truthy(r.label)
                                            THEN EscapeLabel(r.label[1])
                                            ELSE <<>>))) :
                            dst \in {GetItem(src.am, Head(relations).dst)}} :
                       TRUE :
                       src \in {GetItem(am, Head(relations).src)}} : TRUE :
             relations \in {relation_seq}, am \in {alias_map0},
             lines \in {lines0}} : TRUE

\* Mutant: the classes are rendered in the order they were added.
ClassesInInsertionOrder(d) == d.classes

\* sorted(diagram.classes.values(), key=lambda c: c.name)
SortedClasses(d) ==
    Sorted(d.classes, [i \in 1..Len(d.classes) |-> <<d.classes[i].name>>])

\* Mutant: the relations are rendered in the order they were added.
RelationsInInsertionOrder(d) == d.relations

\* sorted(diagram.relations, key=...)
SortedRelations(d) == Sorted(d.relations, RelationKeys(d.relations))

\* render: err when ValueError is raised, else the lines of the text
Render(d) ==
    CHOOSE result \in
        {IF cs.err THEN [err |-> TRUE, lines |-> <<>>]
         ELSE CHOOSE text \in
                  {IF rs.err THEN [err |-> TRUE, lines |-> <<>>]
                   ELSE [err |-> FALSE, lines |-> rs.lines] :
                       rs \in {RenderRelations(SortedRelations(d), cs.am,
                                               cs.lines)}} : TRUE :
             cs \in {RenderClasses(SortedClasses(d), EmptyAliasMap, <<>>)}} :
        TRUE

\* ------------------------------------------------- calls on a diagram
\* The calls a program makes on one diagram, and the alias requests on one
\* alias map.
MaxCalls == 3

MaxRequests == 4

\* The names and texts the calls use: class names, member names, names
\* that share a sanitized form, names without a valid character, a
\* stereotype, a type hint and a label.
Names ==
    [A |-> <<"A">>,
     B |-> <<"B">>,
     x |-> <<"x">>,
     y |-> <<"y">>,
     ASpaceB |-> <<"A", " ", "B">>,
     ADotB |-> <<"A", ".", "B">>,
     AUnderB2 |-> <<"A", "_", "B", "_", "2">>,
     AUnderB |-> <<"A", "_", "B">>,
     DotSpace |-> <<".", " ">>,
     Underscores |-> <<"_", "_">>,
     S |-> <<"S">>,
     T |-> <<"T">>,
     uses |-> <<"u", "s", "e", "s">>,
     colon |-> <<"a", ":", "b">>]

\* The calls of a scenario.
Calls(sc) ==
    CASE sc = "members" ->
             {Call("add_class", Names.A, <<>>, "none", None),
              Call("add_class", <<>>, <<>>, "none", None),
              Call("add_member", Names.A, Names.x, "public", None),
              Call("add_member", Names.A, Names.y, "private", Some(Names.T)),
              Call("add_member", Names.B, Names.x, "public", Some(<<>>)),
              Call("add_member", Names.A, <<>>, "public", None),
              Call("add_member", <<>>, Names.x, "public", None)}
      [] sc = "relations" ->
             {Call("relate", Names.B, Names.A, "association", None),
              Call("relate", Names.A, Names.B, "inheritance", None),
              Call("relate", Names.A, Names.B, "association", Some(Names.uses)),
              Call("relate", Names.A, Names.B, "association", Some(<<>>)),
              Call("relate", Names.A, Names.B, "association", None),
              Call("relate", Names.A, <<>>, "association", None),
              Call("relate", <<>>, Names.B, "association", None),
              Call("add_class", Names.B, <<>>, "none", None)}
      [] sc = "stereotypes" ->
             {Call("add_class", Names.A, <<>>, "none", None),
              Call("add_class", Names.A, <<>>, "none", Some(Names.S)),
              Call("add_class", Names.A, <<>>, "none", Some(Names.T)),
              Call("add_class", Names.A, <<>>, "none", Some(<<>>)),
              Call("add_class", Names.B, <<>>, "none", Some(Names.S)),
              Call("add_member", Names.A, Names.x, "public", None),
              Call("relate", Names.B, Names.A, "implements", None)}
      [] sc = "names" ->
             {Call("add_class", Names.ASpaceB, <<>>, "none", None),
              Call("add_class", Names.ADotB, <<>>, "none", None),
              Call("add_class", Names.AUnderB, <<>>, "none", None),
              Call("add_class", Names.DotSpace, <<>>, "none", None),
              Call("add_class", Names.Underscores, <<>>, "none", None),
              Call("relate", Names.ASpaceB, Names.ADotB, "dependency", None),
              Call("relate", Names.A, Names.DotSpace, "association", None)}
      [] sc = "kinds" ->
             {Call("relate", Names.A, Names.B, "default", Some(Names.uses)),
              Call("relate", Names.A, Names.B, "association", Some(<<>>)),
              Call("relate", Names.A, Names.B, "undirected", None),
              Call("relate", Names.A, Names.B, "inheritance", None),
              Call("relate", Names.A, Names.B, "implements", None),
              Call("relate", Names.A, Names.B, "dependency",
                   Some(Names.colon)),
              Call("relate", Names.A, Names.B, "composition", None),
              Call("relate", Names.B, Names.A, "aggregation", None)}
      [] OTHER -> {}

\* kind: RelationKind = RelationKind.ASSOCIATION, for a call without kind
KindOrDefault(kind) == IF kind = "default" THEN "association" ELSE kind

\* One call on a diagram: err when it raises, d the diagram after it.
Apply(d, c) ==
    CASE c.op = "add_class" -> AddClass(d, c.x, c.o)
      [] c.op = "add_member" -> AddMember(d, c.x, c.y, c.k, c.o)
      [] c.op = "relate" -> Relate(d, c.x, c.y, KindOrDefault(c.k), c.o)

drawing_vars ==
    <<pc, request, root, all_needs, closure_vars, collect_vars, module_vars,
      registry_vars, structure_text, link_text, stack>>

\* A call on the diagram, before render: the caller sees whether it raised.
DiagramCall(op) ==
    /\ request = "diagram"
    /\ output = <<>>
    /\ calls < MaxCalls
    /\ \E c \in Calls(scenario) :
           /\ c.op = op
           /\ LET r == Apply(diagram, c)
              IN /\ diagram' = r.d
                 /\ raised' = r.err
                 /\ log' = IF r.err THEN log ELSE Append(log, c)
           /\ call' = c
    /\ calls' = calls + 1
    /\ UNCHANGED <<output, alias_map, returned, scenario>>
    /\ UNCHANGED drawing_vars

AddClassCall == DiagramCall("add_class")

AddMemberCall == DiagramCall("add_member")

RelateCall == DiagramCall("relate")

\* PlantUmlRenderer().render(diagram)
RenderCall ==
    /\ request = "diagram"
    /\ scenario # "aliases"
    /\ output = <<>>
    /\ output' = <<Render(diagram)>>
    /\ call' = Call("render", <<>>, <<>>, "none", None)
    /\ raised' = Render(diagram).err
    /\ UNCHANGED <<diagram, log, calls, alias_map, returned, scenario>>
    /\ UNCHANGED drawing_vars

\* alias[name] on one alias map
AliasRequest ==
    /\ request = "diagram"
    /\ scenario = "aliases"
    /\ calls < MaxRequests
    /\ \E name \in
           {Names.A, Names.ASpaceB, Names.ADotB, Names.AUnderB,
            Names.AUnderB2, Names.DotSpace, Names.Underscores, <<>>} :
           LET r == GetItem(alias_map, name)
           IN /\ alias_map' = r.am
              /\ raised' = r.err
              /\ returned' = IF r.err THEN returned
                             ELSE Append(returned, <<name, r.alias>>)
              /\ call' = Call("alias", name, <<>>, "none", None)
    /\ calls' = calls + 1
    /\ UNCHANGED <<diagram, log, output, scenario>>
    /\ UNCHANGED drawing_vars

DiagramInit ==
    /\ request = "diagram"
    /\ root = None
    /\ all_needs = [ids |-> {}, includes |-> NoRel, consists_of |-> NoRel,
                    implements |-> NoRel, uses |-> NoRel, owner |-> NoRel]
    /\ Fresh
    /\ FreshDiagram
    /\ scenario \in
           {"members", "relations", "stereotypes", "names", "kinds",
            "aliases"}

DiagramNext ==
    \/ AddClassCall
    \/ AddMemberCall
    \/ RelateCall
    \/ RenderCall
    \/ AliasRequest

DiagramSpec == DiagramInit /\ [][DiagramNext]_vars

\* The diagram after the calls of s, made on an empty diagram.
RECURSIVE Replay(_)
Replay(s) ==
    IF s = <<>> THEN EmptyDiagram
    ELSE Apply(Replay(SubSeq(s, 1, Len(s) - 1)), s[Len(s)]).d

\* The orders of a sequence, as the orders of its indices.
IndexOrders(n) ==
    {p \in [1..n -> 1..n] : \A i, j \in 1..n : p[i] = p[j] => i = j}

Permuted(s, p) == [i \in 1..Len(s) |-> s[p[i]]]

\* ------------------------------------------------ claims on the diagram
\* The ends of the stored relations.
Endpoints(d) ==
    UNION {{d.relations[i].src, d.relations[i].dst} :
               i \in 1..Len(d.relations)}

\* The rendered text has a class block for the class of that name.
HasClassBlock(lines, name) ==
    \E i \in 1..Len(lines) :
        lines[i].type = "class" /\ lines[i].b = Quote(name)

Rendered == output # <<>> /\ ~output[1].err

\* C15: after any calls on a diagram, failed ones included, both ends of
\* every stored relation are classes of the diagram, and in a rendered text
\* each of them has a class block.
C15_EndpointsAreClasses ==
    /\ Endpoints(diagram) \subseteq ClassNames(diagram)
    /\ Rendered =>
           \A name \in Endpoints(diagram) :
               HasClassBlock(output[1].lines, name)

C15_Witness ==
    /\ Rendered
    /\ scenario = "relations"
    /\ Len(log) = 1
    /\ calls = 3
    /\ log[1].op = "relate"
    /\ diagram.relations # <<>>
    /\ HasClassBlock(output[1].lines, Names.B)
    /\ HasClassBlock(output[1].lines, Names.A)

\* The call has an empty class name, member name or relation end.
HasEmptyName(c) ==
    CASE c.op = "add_class" -> c.x = <<>>
      [] c.op = "add_member" -> c.x = <<>> \/ c.y = <<>>
      [] c.op = "relate" -> c.x = <<>> \/ c.y = <<>>

\* The classes the call names.
NamedClasses(c) == IF c.op = "relate" THEN {c.x, c.y} ELSE {c.x}

\* C16: a call of add_class, add_member or relate with an empty name raises
\* and leaves the diagram as it was; with non-empty names it returns and the
\* classes it names are classes of the diagram.
C16_EmptyNamesRejected ==
    [][calls' = calls + 1
           /\ call'.op \in {"add_class", "add_member", "relate"} =>
           IF HasEmptyName(call')
           THEN raised' /\ diagram' = diagram /\ log' = log
           ELSE ~raised' /\ NamedClasses(call') \subseteq ClassNames(diagram')
                    /\ log' = Append(log, call')]_vars

C16_Witness ==
    /\ raised
    /\ call = Call("add_member", Names.A, <<>>, "public", None)
    /\ Names.A \notin ClassNames(diagram)
    /\ ClassNames(diagram) = {Names.B}
    /\ Len(diagram.classes[1].members) = 1
    /\ calls = 3

\* The calls of s on the class of that name that add a member to it, or
\* that give it a stereotype, in their order.
OrderedCalls(s, name) ==
    SelectSeq(s, LAMBDA c : /\ c.x = name
                            /\ \/ c.op = "add_member"
                               \/ c.op = "add_class" /\ c.o # None)

\* The text render returns for the diagram the calls of s build.
RenderOf(s) == Render(Replay(s))

\* C17 as stated: every order of the calls that returned renders the text
\* that was rendered.
C17_OrderIndependent ==
    output # <<>> =>
        \A p \in IndexOrders(Len(log)) : RenderOf(Permuted(log, p)) = output[1]

\* C17, amended: every order of the calls that returned which keeps, for
\* each class, the order of the calls that add its members or give it a
\* stereotype, renders the text that was rendered.
C17_OrderOfClassesAndRelationsIndependent ==
    output # <<>> =>
        \A p \in IndexOrders(Len(log)) :
            (\A name \in ClassNames(diagram) :
                 OrderedCalls(Permuted(log, p), name) = OrderedCalls(log, name))
                => RenderOf(Permuted(log, p)) = output[1]

C17_Witness ==
    /\ Rendered
    /\ scenario = "relations"
    /\ Len(log) = 3
    /\ log[1] = Call("relate", Names.B, Names.A, "association", None)
    /\ log[2] = Call("relate", Names.A, Names.B, "association", Some(Names.uses))
    /\ log[3] = Call("relate", Names.A, Names.B, "inheritance", None)
    /\ output[1].lines[Len(output[1].lines)].a = Names.B

\* The lines of that type, in their order.
LinesOfType(lines, type) == SelectSeq(lines, LAMBDA l : l.type = type)

\* The identifier the text declares for the class of that name.
DeclaredAlias(lines, name) ==
    LET i == CHOOSE i \in 1..Len(lines) :
                 lines[i].type = "class" /\ lines[i].b = Quote(name)
    IN lines[i].a

\* The relation line of a relation, given the class lines of the text.
LineOfRelation(lines, r) ==
    RelationLine(DeclaredAlias(lines, r.src), Arrows(r.kind),
                 DeclaredAlias(lines, r.dst),
                 IF Truthy(r.label) THEN EscapeLabel(r.label[1]) ELSE <<>>)

\* C18: a rendered text has one class block for each class of the diagram,
\* the class blocks ascend by class name, every class block is before every
\* relation line, and the relation lines are those of the relations, in
\* ascending order of (src, dst, kind, label or empty).
C18_BlocksAndLinesSorted ==
    Rendered =>
        LET lines == output[1].lines
            blocks == LinesOfType(lines, "class")
            rels == LinesOfType(lines, "relation")
            keys == RelationKeys(diagram.relations)
        IN /\ Len(blocks) = Cardinality(ClassNames(diagram))
           /\ \A name \in ClassNames(diagram) : HasClassBlock(lines, name)
           /\ \A i, j \in 1..Len(blocks) :
                  i < j => \E m, n \in ClassNames(diagram) :
                               /\ blocks[i].b = Quote(m)
                               /\ blocks[j].b = Quote(n)
                               /\ StrLess(m, n)
           /\ \A i, j \in 1..Len(lines) :
                  lines[i].type = "relation" /\ lines[j].type # "relation"
                      => j < i
           /\ Len(rels) = Len(diagram.relations)
           /\ \E p \in IndexOrders(Len(rels)) :
                  /\ \A k \in 1..Len(rels) :
                         rels[k] = LineOfRelation(lines, diagram.relations[p[k]])
                  /\ \A k, l \in 1..Len(rels) :
                         k < l => ~TupleLess(keys[p[l]], keys[p[k]])

C18_Witness ==
    /\ Rendered
    /\ scenario = "relations"
    /\ Len(diagram.relations) = 3
    /\ diagram.classes[1].name = Names.B
    /\ diagram.relations[1].src = Names.B
    /\ diagram.relations[2].kind = "inheritance"
    /\ diagram.relations[3].label = Some(Names.uses)
    /\ Len(output[1].lines) = 7

\* The names and the aliases of the requests before the i-th that returned.
EarlierNames(i) == {returned[j][1] : j \in 1..(i - 1)}

EarlierAliases(i) == {returned[j][2] : j \in 1..(i - 1)}

\* base_n, the n-th candidate after the base
Suffixed(base, n) == base \o <<"_">> \o Str(n)

\* C19: on one alias map two requests return the same identifier exactly
\* when they are for the same name, and the first request for a name returns
\* its sanitized form when no earlier request returned it, else that form
\* with the least suffix _2, _3, ... that no earlier request returned.
C19_AliasesDistinctAndFirstFree ==
    /\ \A i, j \in 1..Len(returned) :
           returned[i][2] = returned[j][2] <=> returned[i][1] = returned[j][1]
    /\ \A i \in 1..Len(returned) :
           returned[i][1] \notin EarlierNames(i) =>
               LET base == Sanitize(returned[i][1]).alias
                   taken == EarlierAliases(i)
               IN IF base \notin taken THEN returned[i][2] = base
                  ELSE \E n \in 2..(Len(returned) + 1) :
                           /\ returned[i][2] = Suffixed(base, n)
                           /\ Suffixed(base, n) \notin taken
                           /\ \A m \in 2..(n - 1) : Suffixed(base, m) \in taken

C19_Witness ==
    /\ scenario = "aliases"
    /\ returned = << <<Names.AUnderB2, Names.AUnderB2>>,
                     <<Names.ASpaceB, Names.AUnderB>>,
                     <<Names.ADotB, <<"A", "_", "B", "_", "3">> >>,
                     <<Names.ASpaceB, Names.AUnderB>> >>

\* A name made only of characters that are not letters, digits or
\* underscores, or only of underscores.
Unaliasable(name) ==
    /\ name # <<>>
    /\ \/ \A i \in 1..Len(name) : ~IsValidChar(name[i])
       \/ \A i \in 1..Len(name) : name[i] = "_"

\* C20: an alias request for a name made only of invalid characters or only
\* of underscores raises and leaves the alias map as it was, and render of a
\* diagram that has a class of such a name, which add_class accepted, raises
\* and returns no text.
C20_UnaliasableNameFails ==
    [][/\ call'.op = "alias" /\ calls' = calls + 1 /\ Unaliasable(call'.x)
           => raised' /\ alias_map' = alias_map /\ returned' = returned
       /\ call'.op = "render" /\ output = <<>>
              /\ (\E name \in ClassNames(diagram) : Unaliasable(name))
           => raised' /\ output'[1].err /\ output'[1].lines = <<>>]_vars

C20_Witness ==
    /\ scenario = "names"
    /\ output # <<>>
    /\ output[1].err
    /\ log = <<Call("add_class", Names.ASpaceB, <<>>, "none", None),
               Call("add_class", Names.Underscores, <<>>, "none", None)>>
    /\ calls = 2
    /\ ClassNames(diagram) = {Names.ASpaceB, Names.Underscores}

\* The arrow token of each relation kind, as the claim lists them.
ArrowTokens ==
    [association |-> <<"-", "-", ">">>,
     undirected |-> <<"-", "-">>,
     inheritance |-> <<"<", "|", "-", "-">>,
     implements |-> <<"<", "|", ".", ".">>,
     dependency |-> <<".", ".", ">">>,
     composition |-> <<"*", "-", "-">>,
     aggregation |-> <<"o", "-", "-">>]

\* C21: every relation kind has the arrow token the claim lists, no two
\* kinds share a token; the relation lines of a rendered text are, for each
\* stored relation, the identifier of src, the token of its kind and the
\* identifier of dst, with the (escaped) label after them exactly when the
\* label is not empty; a relate call without a kind is stored and rendered
\* as an association.
C21_ArrowPerKind ==
    /\ \A k \in DOMAIN ArrowTokens : Arrows(k) = ArrowTokens[k]
    /\ \A k, l \in DOMAIN ArrowTokens : Arrows(k) = Arrows(l) => k = l
    /\ \A i \in 1..Len(log) :
           log[i].op = "relate" /\ log[i].k = "default" =>
               Relation(log[i].x, log[i].y, "association", log[i].o)
                   \in Range(diagram.relations)
    /\ Rendered =>
           LET lines == output[1].lines
               rels == LinesOfType(lines, "relation")
               Expected(r) ==
                   [type |-> "relation",
                    a |-> DeclaredAlias(lines, r.src),
                    b |-> ArrowTokens[r.kind],
                    e |-> DeclaredAlias(lines, r.dst),
                    c |-> IF r.label = None \/ r.label = Some(<<>>) THEN <<>>
                          ELSE EscapeLabel(r.label[1])]
           IN /\ Len(rels) = Len(diagram.relations)
              /\ Range(rels) = {Expected(r) : r \in Range(diagram.relations)}
              /\ \A r \in Range(diagram.relations) :
                     Expected(r).c # <<>> <=>
                         r.label # None /\ r.label[1] # <<>>

C21_Witness ==
    /\ Rendered
    /\ scenario = "kinds"
    /\ log = <<Call("relate", Names.A, Names.B, "default", Some(Names.uses)),
               Call("relate", Names.A, Names.B, "dependency",
                    Some(Names.colon)),
               Call("relate", Names.B, Names.A, "aggregation", None)>>
    /\ LinesOfType(output[1].lines, "relation") =
           <<RelationLine(Names.A, <<"-", "-", ">">>, Names.B, Names.uses),
             RelationLine(Names.A, <<".", ".", ">">>, Names.B,
                          <<"a", "\\", ":", "b">>),
             RelationLine(Names.B, <<"o", "-", "-">>, Names.A, <<>>)>>

\* The stereotype of the class of that name.
StereotypeOf(d, name) == d.classes[ClassIndex(d, name)].stereotype

\* The header of the class of that name in the text.
HeaderOf(lines, name) ==
    lines[CHOOSE i \in 1..Len(lines) :
              lines[i].type = "class" /\ lines[i].b = Quote(name)]

\* A stereotype a class has is kept by every call, and a class that has
\* none takes the one an add_class call gives it.
StereotypeKept ==
    /\ \A name \in ClassNames(diagram) :
           StereotypeOf(diagram, name) # None =>
               StereotypeOf(diagram', name) = StereotypeOf(diagram, name)
    /\ calls' = calls + 1 /\ call'.op = "add_class" /\ ~raised'
           /\ call'.o # None
           /\ (call'.x \in ClassNames(diagram) =>
                   StereotypeOf(diagram, call'.x) = None)
           => StereotypeOf(diagram', call'.x) = call'.o

\* C26 as stated: a stereotype is set once, and the header of every class
\* that has a stereotype carries it between << and >>.
C26_StereotypeSetOnceAndRendered ==
    [][/\ StereotypeKept
       /\ output' # <<>> /\ ~output'[1].err =>
              \A name \in ClassNames(diagram') :
                  StereotypeOf(diagram', name) # None =>
                      /\ HeaderOf(output'[1].lines, name).c # <<>>
                      /\ HeaderOf(output'[1].lines, name).c =
                             EscapeStereotype(StereotypeOf(diagram', name)[1])
      ]_vars

\* C26, amended: a stereotype is set once, the empty stereotype included;
\* the header of a class carries its stereotype between << and >> when the
\* stereotype is not empty, and no << >> when it is None or empty.
C26_StereotypeSetOnceRenderedIfNotEmpty ==
    [][/\ StereotypeKept
       /\ output' # <<>> /\ ~output'[1].err =>
              \A name \in ClassNames(diagram') :
                  LET st == StereotypeOf(diagram', name)
                      header == HeaderOf(output'[1].lines, name)
                  IN IF st # None /\ st[1] # <<>>
                     THEN header.c # <<>> /\ header.c = EscapeStereotype(st[1])
                     ELSE header.c = <<>>
      ]_vars

C26_Witness ==
    /\ Rendered
    /\ scenario = "stereotypes"
    /\ log = <<Call("relate", Names.B, Names.A, "implements", None),
               Call("add_class", Names.A, <<>>, "none", Some(Names.S)),
               Call("add_class", Names.A, <<>>, "none", Some(Names.T))>>
    /\ StereotypeOf(diagram, Names.A) = Some(Names.S)
    /\ HeaderOf(output[1].lines, Names.A).c = Names.S
    /\ HeaderOf(output[1].lines, Names.B).c = <<>>

\* C22: in the work queue of the feature closure an interface is expanded
\* only when it has not been expanded before, every expansion is recorded in
\* visited_interfaces, which never loses an interface, an interface that was
\* expanded is only popped when it comes up again, and so the expansions are
\* never more than the interfaces of the graph.
C22_ExpandedAtMostOnce ==
    [][pc = "loop" /\ pc' = "loop" =>
           LET iface == Head(interfaces_to_process)
               expands ==
                   \/ visited_interfaces' # visited_interfaces
                   \/ secondary_components' # secondary_components
                   \/ all_related_interfaces' # all_related_interfaces
                   \/ interfaces_to_process' # Tail(interfaces_to_process)
           IN /\ visited_interfaces \subseteq visited_interfaces'
              /\ expands =>
                     /\ iface \notin visited_interfaces
                     /\ visited_interfaces' = visited_interfaces \cup {iface}
              /\ iface \in visited_interfaces => ~expands
              /\ visited_interfaces' \subseteq Interfaces \cap all_needs.ids
              /\ Cardinality(visited_interfaces')
                     <= Cardinality(Interfaces \cap all_needs.ids)]_vars

C22_Witness ==
    /\ pc = "loop"
    /\ interfaces_to_process = <<I3>>
    /\ visited_interfaces = {I2, I3}
    /\ I3 \in Uses(C2) /\ I3 \in Uses(CX)
    /\ I2 \in Uses(C3) /\ I3 \in Implements(C3)
    /\ secondary_components = {C2, C3}

\* ------------------------------------------------ black-box and white-box
\* The sub-components of a need that draw_comp_incl_impl_int draws when the
\* need is white-box: those present in the graph whose type is a component.
DrawnSubComponents(gr, need) ==
    LET IsDrawn(id) == id \in gr.ids /\ TypeOf(id) \in {"comp", "comp_arc_sta"}
    IN SelectSeq(gr.includes[need] \o gr.consists_of[need], IsDrawn)

\* The line that follows the opening line of a sub-component: its first
\* drawn sub-component when it has a consists_of, its own closing line
\* otherwise.
LineAfterOpen(gr, need) ==
    IF gr.consists_of[need] # <<>> /\ DrawnSubComponents(gr, need) # <<>>
    THEN OpenBlock("component", DrawnSubComponents(gr, need)[1])
    ELSE CloseBlock(need)

\* Every component block of the text from position `from` on is expanded
\* exactly when its need has a consists_of.
ExpandedIffContainer(gr, text, from) ==
    \A i \in from..(Len(text) - 1) :
        (text[i][1] = "component" /\ text[i][2] \in gr.ids)
            => text[i + 1] = LineAfterOpen(gr, text[i][2])

\* C23: a sub-component directly contained in a module or in a white-box
\* component is expanded white-box if and only if its consists_of is not
\* empty; a sub-component whose consists_of is empty is drawn as its opening
\* line followed by its closing line, with nothing of its includes or
\* consists_of inside, also when its includes is not empty.
C23_WhiteBoxIffConsistsOf ==
    /\ \A k \in 1..Len(stack) :
           LET frame == stack[k]
               sub == k > 1 \/ request = "feature"
           IN /\ sub => (frame.white_box_view
                             <=> all_needs.consists_of[frame.need] # <<>>)
              /\ ~frame.white_box_view
                     => /\ frame.structure
                               = <<OpenBlock("component", frame.need)>>
                        /\ frame.index = 1
              /\ ExpandedIffContainer(all_needs, frame.structure,
                                      IF sub THEN 1 ELSE 2)
    /\ ExpandedIffContainer(all_needs, module_structure, 1)
    /\ request = "component"
           => ExpandedIffContainer(all_needs, structure_text, 2)

\* A component request whose root consists of C2, which includes C3 and has
\* no consists_of, and of C3: C2 is drawn closed although C3 is in the graph.
C23_Witness ==
    /\ request = "component"
    /\ pc = "done"
    /\ root = C1
    /\ all_needs.consists_of[C1] = <<C2, C3>>
    /\ all_needs.consists_of[C2] = <<>>
    /\ all_needs.includes[C2] = <<C3, I1>>
    /\ C3 \in all_needs.ids
    /\ SubSeq(structure_text, 1, 5)
           = <<OpenBlock("component", C1),
               OpenBlock("component", C2), CloseBlock(C2),
               OpenBlock("component", C3), CloseBlock(C3)>>

\* ------------------------------------------------ duplicate link lines
\* The link text as the string it is: a sequence of characters.

\* The most link lines a module emits before its duplicates are removed,
\* and the most _build_links adds after.
MaxLinks == 3
MaxBuilt == 1

\* text.split("\n"): the pieces between the newlines, one more than there
\* are newlines.
RECURSIVE Split(_)
Split(text) ==
    IF "\n" \notin Range(text) THEN <<text>>
    ELSE LET i == CHOOSE k \in 1..Len(text) :
                      /\ text[k] = "\n"
                      /\ \A j \in 1..(k - 1) : text[j] # "\n"
         IN <<SubSeq(text, 1, i - 1)>> \o Split(SubSeq(text, i + 1, Len(text)))

\* "\n".join(pieces)
RECURSIVE Join(_)
Join(pieces) ==
    IF pieces = <<>> THEN <<>>
    ELSE IF Len(pieces) = 1 THEN pieces[1]
    ELSE pieces[1] \o <<"\n">> \o Join(Tail(pieces))

\* Mutant: the pieces are joined again as the list they were split into.
Rejoined(text) == {Join(Split(text)) \o <<"\n">>}

\* "\n".join(set(text.split("\n"))) + "\n", for every order in which the
\* set can be iterated.
Deduplicated(text) ==
    {Join(order) \o <<"\n">> : order \in Orders(Range(Split(text)))}

\* The link lines a drawing emits, at most n of them.
LinkLines(n) ==
    UNION {[1..k -> {<<"a">>, <<"a", "b">>}] : k \in 0..n}

\* text += f"{line} \n", for every line of ls
RECURSIVE Appended(_, _)
Appended(text, ls) ==
    IF ls = <<>> THEN text
    ELSE Appended(text \o Head(ls) \o <<" ", "\n">>, Tail(ls))

\* draw_module before its last statement: linkage_text holds the link lines
\* of the module's components and interfaces.
EmitLinks ==
    /\ pc = "start"
    /\ request = "links"
    /\ \E ls \in LinkLines(MaxLinks) : module_linkage' = Appended(<<>>, ls)
    /\ pc' = "emitted"
    /\ UNCHANGED <<request, root, all_needs, closure_vars, collect_vars,
                   registry_vars, structure_text, link_text, stack, module,
                   local_impl_interfaces, module_structure, include_index>>
    /\ UNCHANGED diagram_vars

\* draw_module: remove duplicate links; the feature takes what is returned
\* for its link_text.
DedupModule ==
    /\ pc = "emitted"
    /\ link_text' \in Deduplicated(module_linkage)
    /\ pc' = "module"
    /\ UNCHANGED <<request, root, all_needs, closure_vars, collect_vars,
                   module_vars, registry_vars, structure_text, stack>>
    /\ UNCHANGED diagram_vars

\* _build_links appends to the link text of the last module drawn, or to
\* the empty string when the feature drew no module.
AppendBuiltLinks ==
    /\ request = "links"
    /\ pc \in {"start", "module"}
    /\ \E ls \in LinkLines(MaxBuilt) :
           link_text' = Appended(IF pc = "start" THEN <<>> ELSE link_text, ls)
    /\ pc' = "built"
    /\ UNCHANGED <<request, root, all_needs, closure_vars, collect_vars,
                   module_vars, registry_vars, structure_text, stack>>
    /\ UNCHANGED diagram_vars

\* __call__: remove duplicate links
DedupFeature ==
    /\ pc = "built"
    /\ link_text' \in Deduplicated(link_text)
    /\ pc' = "done"
    /\ UNCHANGED <<request, root, all_needs, closure_vars, collect_vars,
                   module_vars, registry_vars, structure_text, stack>>
    /\ UNCHANGED diagram_vars

LinksInit ==
    /\ request = "links"
    /\ root = None
    /\ all_needs = [ids |-> {}, includes |-> NoRel, consists_of |-> NoRel,
                    implements |-> NoRel, uses |-> NoRel, owner |-> NoRel]
    /\ Fresh
    /\ NoDiagram

LinksNext ==
    \/ EmitLinks
    \/ DedupModule
    \/ AppendBuiltLinks
    \/ DedupFeature

LinksSpec == LinksInit /\ [][LinksNext]_vars

\* The text a de-duplication step reads.
TextBefore == IF pc = "emitted" THEN module_linkage ELSE link_text

\* C24: the de-duplication of the link text, in draw_module and in the
\* feature call, returns a text in which no non-empty line occurs twice
\* and whose set of lines is the set of lines of the text it was given;
\* de-duplicating the result again, in whatever order, leaves the set of
\* lines as it is.
C24_DeduplicationKeepsLineSet ==
    [][(pc \in {"emitted", "built"} /\ pc' # pc)
           => LET before == Split(TextBefore)
                  after == Split(link_text')
              IN /\ \A i, j \in 1..Len(after) :
                        (i # j /\ after[i] = after[j]) => after[i] = <<>>
                 /\ Range(after) = Range(before)
                 /\ \A again \in Deduplicated(link_text') :
                        Range(Split(again)) = Range(after)]_vars

\* A module emitted the line "a " twice and the line "ab " once; the text
\* returned has each once, here with the empty piece between them.
C24_Witness ==
    /\ pc = "module"
    /\ module_linkage
           = <<"a", " ", "\n", "a", "b", " ", "\n", "a", " ", "\n">>
    /\ link_text = <<"a", "b", " ", "\n", "\n", "a", " ", "\n">>

\* ------------------------------------------------ draw_impl_interface
\* C25 (as claimed): the collection of the implemented interfaces of a
\* module (draw_module) or of a component (draw_full_component) returns on
\* every graph, also when includes or consists_of contain a cycle: the step
\* that calls draw_impl_interface never ends in a RecursionError.
C25_ImplInterfaceTerminates ==
    [][(pc \in {"modules", "drawn"}) => pc' # "RecursionError"]_vars

====
